---- MODULE Spec2Model ----
(***************************************************************************)
(* Capture ring and analysis orchestration of the CodeLens main process    *)
(* (src/unnamed/part_008): screenshot ring, debounce timer, single-flight  *)
(* analysis trigger, reset, mode toggle and model selection.               *)
(***************************************************************************)
EXTENDS Integers, Sequences, FiniteSets, TLC

\* ---------------------------------------------------------------- bounds
MaxShots == 3         \* distinct capture timestamps explored
MaxWrapShots == 4     \* the same where the ring is followed round (WrapSpec)
MaxConcurrent == 2    \* takeScreenshot invocations that may overlap
MaxCalls == 2         \* analyzer calls explored
MaxFetched == 1       \* longest model list the API fetch returns
MaxSpawns == 3        \* Electron children the development watcher spawns

\* ------------------------------------------------------ program constants
MAX_SCREENSHOTS == 2
FallbackCount == 3

Null == <<>>            \* null / undefined of an optional value
Some(x) == <<x>>        \* a present optional value
NaN == -1               \* the index after (i + 1) % 0
NoModel == 0            \* availableModels[i] when i designates no entry
Procs == 1..MaxConcurrent
Modes == {"code", "general"}

VARIABLES
    mainWindow,              \* TRUE iff mainWindow is a live BrowserWindow
    domReadyPending,         \* the once('dom-ready') listener has not run yet
    apiKeyConfigured,        \* OPENROUTER_API_KEY present and well formed
    screenshotCount,
    screenshotPaths,         \* sequence of paths, a path is <<slot, timestamp>>
    previousCodeAnalysis,
    previousGeneralAnalysis,
    currentModelIndex,
    availableModels,
    currentMode,
    isAnalysisRunning,
    pendingAnalysis,
    analysisPromise,         \* TRUE iff analysisPromise is non-null
    analysisTimer,           \* TRUE iff analysisTimer holds a timeout handle
    armedTimers,             \* timeouts of scheduleAnalysis set, not yet fired
                             \* and not cleared
    cachedModels,            \* providers module cache, Null or Some(model list)
    modelsFetchPromise,      \* TRUE iff a model-list fetch is in flight
    cap,                     \* per takeScreenshot invocation: position and locals
    lastTs,                  \* the latest value Date.now() gave a capture
    calls,                   \* analyzer calls in flight
    unlinked,                \* paths handed to fsPromises.unlink
    nCalls,                  \* analyzer calls started so far
    nInserts,                \* inserts since start-up or the last reset
    overlap,                 \* a capture was in progress at the last reset, or
                             \* one has begun since while another was
    evicted,                 \* paths replaced in the ring by an insert
    midFlight,               \* triggers that found a call running (at most 2
                             \* are counted), since the last call start, reset
                             \* or mode toggle
    owed,                    \* a capture filled the ring and since then no call
                             \* has started and there was no reset, mode toggle,
                             \* manual trigger or window close
    quiet,                   \* no capture or manual trigger since the last reset
    cancelled,               \* what the reset cancelled ("timer", "rerun"), while
                             \* quiet
    lastStart,               \* what started the latest analyzer call
    coalesced,               \* the triggers that call start answered (midFlight)
    scheduled,               \* scheduleAnalysis calls since a timer last fired
                             \* or was cancelled (at most 2 are counted)
    cold,                    \* 1: no capture and no call start since the last
                             \* reset, 2: captures but no call start since it,
                             \* 0: otherwise
    aborted,                 \* a trigger has returned for want of a model
    lastOutcome,             \* how the latest returned analyzer call ended
    crossed,                 \* the latest returned call returned while the
                             \* current mode was not the mode it started in
    sent,                    \* the call whose 'analysis-result' the window
                             \* received last (0: none)
    job,                     \* the latest call of a function of the services
                             \* layer: its name, argument and result
    loading,                 \* the window shows the loading state: it got
                             \* 'show-loading' and no 'analysis-result' since
    providers,               \* the model-list cache of the providers module
                             \* with the fetches and calls in flight
    unseen,                  \* files saved since the first analyzer call
                             \* started that no call has been handed, with no
                             \* reset, mode toggle or window close since
    lastSaved,               \* the file the latest finished saveScreenshot
                             \* wrote (Null: none since start-up)
    dev,                     \* the development watcher: its electronProcess,
                             \* its children and its timers
    history                  \* which of the history variables are recorded

ringVars == <<screenshotCount, screenshotPaths>>
ctxVars == <<previousCodeAnalysis, previousGeneralAnalysis>>
modelVars == <<currentModelIndex, availableModels, cachedModels, modelsFetchPromise>>
flightVars == <<isAnalysisRunning, pendingAnalysis, analysisPromise, calls, nCalls>>
ghostRing == <<nInserts, overlap, evicted>>
ghostFlight == <<midFlight, owed, quiet, cancelled, lastStart, coalesced,
                 cold, aborted>>
ghostCtx == <<lastOutcome, crossed, sent>>
timerVars == <<analysisTimer, armedTimers, scheduled>>

vars == <<mainWindow, domReadyPending, apiKeyConfigured, screenshotCount,
          screenshotPaths, previousCodeAnalysis, previousGeneralAnalysis,
          currentModelIndex, availableModels, currentMode, isAnalysisRunning,
          pendingAnalysis, analysisPromise, analysisTimer, cachedModels,
          modelsFetchPromise, cap, lastTs, calls, unlinked, nCalls,
          nInserts, overlap, evicted, midFlight, owed, quiet, cancelled,
          lastStart, coalesced, armedTimers, scheduled, cold, aborted,
          lastOutcome, crossed, sent, loading, unseen, lastSaved, job,
          providers, dev, history>>

\* every variable of the main process (all but job)
mainVars == <<mainWindow, domReadyPending, apiKeyConfigured, screenshotCount,
              screenshotPaths, previousCodeAnalysis, previousGeneralAnalysis,
              currentModelIndex, availableModels, currentMode,
              isAnalysisRunning, pendingAnalysis, analysisPromise,
              analysisTimer, cachedModels, modelsFetchPromise, cap, lastTs,
              calls, unlinked, nCalls, nInserts, overlap, evicted, midFlight,
              owed, quiet, cancelled, lastStart, coalesced, armedTimers,
              scheduled, cold, aborted, lastOutcome, crossed, sent, loading,
              unseen, lastSaved, history>>

\* ------------------------------------------------------------- helpers
ModelList(n) == [i \in 1..n |-> i]

FALLBACK_MODELS == ModelList(FallbackCount)

NoJob == [fn |-> "none", arg |-> <<>>, res |-> <<>>, done |-> TRUE]

\* the providers module as loaded: nothing cached, no fetch and no call in
\* flight
NoProviders ==
    [cachedModels |-> Null, modelsFetchPromise |-> 0, inFlight |-> {},
     waiting |-> {}, issued |-> 0, stable |-> Null, holds |-> 0,
     last |-> [op |-> "none", expect |-> <<>>, got |-> <<>>,
               fetched |-> FALSE, failed |-> FALSE]]

\* the development watcher before init(): no child spawned, no timer set.
\* electronProcess and autoRestartTimeout are 0 for null, else the child and
\* the timer they designate; restartTimeout tells whether the debounce timer
\* is armed, autoTimers which auto-restart timers are.
NoDev ==
    [phase |-> "load", electronProcess |-> 0, spawned |-> 0,
     children |-> [c \in 1..MaxSpawns |-> "none"],
     restartTimeout |-> FALSE, autoRestartTimeout |-> 0, autoTimers |-> {}]

IdleCap == [pc |-> "idle", tie |-> FALSE, slot |-> 0, ts |-> 0]

\* availableModels[currentModelIndex]
ModelAt(models, idx) ==
    IF idx \in 0..(Len(models) - 1) THEN models[idx + 1] ELSE NoModel

\* JSON.stringify of the analyzer's result for call id
Serialized(id, outcome) == [call |-> id, kind |-> outcome]

Range(s) == {s[i] : i \in 1..Len(s)}

\* History variables are recorded by the specification that states claims
\* about them: the ring's (evicted, nInserts, overlap) by RingSpec and
\* WrapSpec, the
\* orchestrator's (midFlight, owed, quiet, scheduled, ...) by FairSpec, the
\* unlinked files by both, the stored context's (cold, lastOutcome, crossed,
\* sent) by CtxSpec, aborted by ModelSpec; elsewhere they keep their initial
\* values.
RingH(new, old) == IF history \in {"ring", "wrap"} THEN new ELSE old

FairH(new, old) == IF history = "fair" THEN new ELSE old

FilesH(new, old) == IF history \in {"ring", "fair", "wrap"} THEN new ELSE old

FlightH(new, old) == IF history \in {"fair", "ctx"} THEN new ELSE old

LiveH(new, old) == IF history = "live" THEN new ELSE old

SeenH(new, old) == IF history = "seen" THEN new ELSE old

\* the files followed: Null until a call has started on a full ring
Unseen == IF unseen = Null THEN {} ELSE unseen[1]

CtxH(new, old) == IF history = "ctx" THEN new ELSE old

ModelH(new, old) == IF history = "model" THEN new ELSE old

\* getAvailableModelsSync
getAvailableModelsSync ==
    IF cachedModels # Null THEN cachedModels[1] ELSE FALLBACK_MODELS

\* the module-level initialisers, before app.whenReady
Boot ==
    /\ mainWindow = FALSE
    /\ domReadyPending = FALSE
    /\ apiKeyConfigured \in BOOLEAN
    /\ screenshotCount = 0
    /\ screenshotPaths = <<>>
    /\ previousCodeAnalysis = Null
    /\ previousGeneralAnalysis = Null
    /\ currentModelIndex = 0
    /\ availableModels = <<>>
    /\ currentMode = "code"
    /\ isAnalysisRunning = FALSE
    /\ pendingAnalysis = FALSE
    /\ analysisPromise = FALSE
    /\ analysisTimer = FALSE
    /\ cachedModels = Null
    /\ modelsFetchPromise = FALSE
    /\ cap = [p \in Procs |-> IdleCap]
    /\ lastTs = 0
    /\ calls = {}
    /\ unlinked = {}
    /\ nCalls = 0
    /\ nInserts = 0
    /\ overlap = FALSE
    /\ evicted = {}
    /\ midFlight = 0
    /\ owed = FALSE
    /\ quiet = FALSE
    /\ cancelled = {}
    /\ lastStart = "none"
    /\ coalesced = 0
    /\ armedTimers = 0
    /\ scheduled = 0
    /\ cold = 0
    /\ aborted = FALSE
    /\ lastOutcome = "none"
    /\ crossed = FALSE
    /\ sent = 0
    /\ job = NoJob
    /\ providers = NoProviders
    /\ dev = NoDev
    /\ loading = FALSE
    /\ unseen = Null
    /\ lastSaved = Null

Init == Boot /\ history = "none"

\* ------------------------------------------------- provider initialisation
\* initializeProvider up to its await, and its continuation when the list is
\* already cached: the new availableModels / currentModelIndex and whether a
\* fetch is (now) in flight
initializeProvider ==
    [models |-> getAvailableModelsSync,
     idx |-> 0,
     fetch |-> IF cachedModels # Null THEN modelsFetchPromise ELSE TRUE]

\* app.whenReady / activate: createWindow
CreateWindow ==
    /\ ~mainWindow
    /\ mainWindow' = TRUE
    /\ domReadyPending' = TRUE
    /\ UNCHANGED <<history, job, providers, dev, unseen, lastSaved, loading, ghostCtx, apiKeyConfigured, ringVars, ctxVars, modelVars, currentMode,
                   flightVars, timerVars, cap, lastTs, unlinked, ghostRing, ghostFlight>>

\* webContents.once('dom-ready')
DomReady ==
    /\ mainWindow
    /\ domReadyPending
    /\ domReadyPending' = FALSE
    /\ availableModels' = initializeProvider.models
    /\ currentModelIndex' = initializeProvider.idx
    /\ modelsFetchPromise' = initializeProvider.fetch
    /\ UNCHANGED <<history, job, providers, dev, unseen, lastSaved, loading, ghostCtx, mainWindow, apiKeyConfigured, ringVars, ctxVars, cachedModels,
                   currentMode, flightVars, timerVars, cap, lastTs, unlinked, ghostRing, ghostFlight>>

\* mainWindow.on('closed')
WindowClosed ==
    /\ mainWindow
    /\ mainWindow' = FALSE
    /\ domReadyPending' = FALSE
    /\ owed' = FALSE
    /\ loading' = FALSE
    /\ unseen' = Null
    /\ UNCHANGED <<history, job, providers, dev, lastSaved, ghostCtx, apiKeyConfigured, ringVars, ctxVars, modelVars, currentMode,
                   flightVars, timerVars, cap, lastTs, unlinked, ghostRing,
                   midFlight, quiet, cancelled, lastStart, coalesced, cold,
                   aborted>>

\* the model-list fetch started by getAvailableModels resolves with a list of
\* n models (fetchProgrammingModels returns the fallback list when it fails);
\* every waiting initializeProvider then runs its continuation
ModelsFetched ==
    /\ modelsFetchPromise
    /\ \E n \in (0..MaxFetched) \cup {FallbackCount} :
          /\ cachedModels' = Some(ModelList(n))
          /\ availableModels' = IF n > 0 THEN ModelList(n) ELSE availableModels
    /\ modelsFetchPromise' = FALSE
    /\ UNCHANGED <<history, job, providers, dev, unseen, lastSaved, loading, ghostCtx, mainWindow, domReadyPending, apiKeyConfigured, ringVars,
                   ctxVars, currentModelIndex, currentMode, flightVars,
                   timerVars, cap, lastTs, unlinked,
                   ghostRing, ghostFlight>>

\* Cmd+M
switchModel ==
    /\ mainWindow
    /\ apiKeyConfigured
    /\ currentModelIndex' =
          IF currentModelIndex = NaN \/ Len(availableModels) = 0
          THEN NaN
          ELSE (currentModelIndex + 1) % Len(availableModels)
    /\ UNCHANGED <<history, job, providers, dev, unseen, lastSaved, loading, ghostCtx, mainWindow, domReadyPending, apiKeyConfigured, ringVars,
                   ctxVars, availableModels, cachedModels, modelsFetchPromise,
                   currentMode, flightVars, timerVars, cap, lastTs, unlinked, ghostRing, ghostFlight>>

\* cancelScheduledAnalysis that leaves the timer running
cancelKeepsTimer ==
    [timer |-> analysisTimer, armed |-> armedTimers, pend |-> FALSE]

\* cancelScheduledAnalysis that leaves the rerun flag
cancelKeepsPending ==
    [timer |-> FALSE,
     armed |-> IF analysisTimer THEN armedTimers - 1 ELSE armedTimers,
     pend |-> pendingAnalysis]

\* cancelScheduledAnalysis that does nothing
cancelNothing ==
    [timer |-> analysisTimer, armed |-> armedTimers, pend |-> pendingAnalysis]

\* cancelScheduledAnalysis: the timer handle, the armed timeouts and the
\* rerun flag it leaves (clearTimeout disarms the timeout of the handle)
cancelScheduledAnalysis ==
    [timer |-> FALSE,
     armed |-> IF analysisTimer THEN armedTimers - 1 ELSE armedTimers,
     pend |-> FALSE]

\* scheduleAnalysis that does not clear the timeout it replaces
scheduleKeepsOld == [timer |-> TRUE, armed |-> armedTimers + 1]

\* scheduleAnalysis: clear the pending timeout, if any, and set a new one
scheduleAnalysis ==
    [timer |-> TRUE,
     armed |-> (IF analysisTimer THEN armedTimers - 1 ELSE armedTimers) + 1]

\* Cmd+A / Shift+Cmd+A: cancelScheduledAnalysis, then flip the mode
toggleAnalysisMode ==
    /\ mainWindow
    /\ analysisTimer' = cancelScheduledAnalysis.timer
    /\ pendingAnalysis' = cancelScheduledAnalysis.pend
    /\ armedTimers' = cancelScheduledAnalysis.armed
    /\ scheduled' = 0
    /\ currentMode' = IF currentMode = "code" THEN "general" ELSE "code"
    /\ midFlight' = 0
    /\ owed' = FALSE
    /\ unseen' = Null
    /\ UNCHANGED <<history, job, providers, dev, lastSaved, loading, ghostCtx, mainWindow, domReadyPending, apiKeyConfigured, ringVars,
                   ctxVars, modelVars, isAnalysisRunning, analysisPromise,
                   calls, nCalls, cap, lastTs, unlinked,
                   ghostRing, quiet, cancelled, lastStart, coalesced, cold,
                   aborted>>

\* Cmd+G
ResetShortcut ==
    /\ mainWindow
    /\ analysisTimer' = cancelScheduledAnalysis.timer
    /\ pendingAnalysis' = cancelScheduledAnalysis.pend
    /\ armedTimers' = cancelScheduledAnalysis.armed
    /\ scheduled' = 0
    /\ cold' = CtxH(1, cold)
    /\ screenshotCount' = 0
    /\ screenshotPaths' = <<>>
    /\ previousCodeAnalysis' = Null
    /\ previousGeneralAnalysis' = Null
    /\ unlinked' = FilesH(unlinked \cup Range(screenshotPaths), unlinked)
    /\ nInserts' = 0
    /\ overlap' = RingH(\E p \in Procs : cap[p].pc # "idle", overlap)
    /\ midFlight' = 0
    /\ owed' = FALSE
    /\ quiet' = FairH(TRUE, quiet)
    /\ cancelled' = FairH((IF analysisTimer THEN {"timer"} ELSE {})
                            \cup (IF pendingAnalysis THEN {"rerun"} ELSE {}),
                          cancelled)
    /\ unseen' = Null
    /\ UNCHANGED <<history, job, providers, dev, lastSaved, loading, ghostCtx, mainWindow, domReadyPending, apiKeyConfigured, modelVars,
                   currentMode, isAnalysisRunning, analysisPromise, calls,
                   nCalls, cap, lastTs, evicted, lastStart, coalesced,
                   aborted>>

\* ------------------------------------------------------- triggerAnalysis
\* what triggerAnalysis leaves when it returns at once
Entry(running, pend, promise, cs, n) ==
    [run |-> running, pend |-> pend, promise |-> promise, calls |-> cs,
     n |-> n, models |-> availableModels, idx |-> currentModelIndex,
     fetch |-> modelsFetchPromise, hit |-> FALSE, abort |-> FALSE]

\* the model list and index triggerAnalysis reads its model from (it calls
\* initializeProvider when the list is empty)
ResolveModel ==
    IF Len(availableModels) = 0
    THEN initializeProvider
    ELSE [models |-> availableModels, idx |-> currentModelIndex,
          fetch |-> modelsFetchPromise]

\* a model lookup that never fails
currentModelAlways == TRUE

\* availableModels[currentModelIndex] is a model
currentModelAvailable ==
    ModelAt(ResolveModel.models, ResolveModel.idx) # NoModel

\* a call handed the newest capture alone
StartCallNewest(same, prevC, prevG) ==
    LET ip == ResolveModel
        afterInit == [same EXCEPT !.models = ip.models, !.idx = ip.idx,
                                  !.fetch = ip.fetch]
        call == [id |-> same.n + 1,
                 mode |-> currentMode,
                 paths |-> <<screenshotPaths[screenshotCount]>>,
                 prev |-> IF currentMode = "code" THEN prevC ELSE prevG,
                 model |-> ModelAt(ip.models, ip.idx),
                 stage |-> "images"]
    IN IF ~currentModelAvailable THEN [afterInit EXCEPT !.abort = TRUE]
       ELSE [afterInit EXCEPT !.run = TRUE, !.pend = FALSE, !.promise = TRUE,
                              !.calls = same.calls \cup {call},
                              !.n = same.n + 1]

\* a call started in code mode whatever the current mode
StartCallInCode(same, prevC, prevG) ==
    LET ip == ResolveModel
        afterInit == [same EXCEPT !.models = ip.models, !.idx = ip.idx,
                                  !.fetch = ip.fetch]
        call == [id |-> same.n + 1,
                 mode |-> "code",
                 paths |-> screenshotPaths,
                 prev |-> prevC,
                 model |-> ModelAt(ip.models, ip.idx),
                 stage |-> "images"]
    IN IF ~currentModelAvailable THEN [afterInit EXCEPT !.abort = TRUE]
       ELSE [afterInit EXCEPT !.run = TRUE, !.pend = FALSE, !.promise = TRUE,
                              !.calls = same.calls \cup {call},
                              !.n = same.n + 1]

\* a call started without the stored analysis
StartCallCold(same, prevC, prevG) ==
    LET ip == ResolveModel
        afterInit == [same EXCEPT !.models = ip.models, !.idx = ip.idx,
                                  !.fetch = ip.fetch]
        call == [id |-> same.n + 1,
                 mode |-> currentMode,
                 paths |-> screenshotPaths,
                 prev |-> Null,
                 model |-> ModelAt(ip.models, ip.idx),
                 stage |-> "images"]
    IN IF ~currentModelAvailable THEN [afterInit EXCEPT !.abort = TRUE]
       ELSE [afterInit EXCEPT !.run = TRUE, !.pend = FALSE, !.promise = TRUE,
                              !.calls = same.calls \cup {call},
                              !.n = same.n + 1]

\* triggerAnalysis past its two guards: resolve the model and start the call
StartCall(same, prevC, prevG) ==
    LET ip == ResolveModel
        afterInit == [same EXCEPT !.models = ip.models, !.idx = ip.idx,
                                  !.fetch = ip.fetch]
        call == [id |-> same.n + 1,
                 mode |-> currentMode,
                 paths |-> screenshotPaths,
                 prev |-> IF currentMode = "code" THEN prevC ELSE prevG,
                 model |-> ModelAt(ip.models, ip.idx),
                 stage |-> "images"]
    IN IF ~currentModelAvailable THEN [afterInit EXCEPT !.abort = TRUE]
       ELSE [afterInit EXCEPT !.run = TRUE, !.pend = FALSE, !.promise = TRUE,
                              !.calls = same.calls \cup {call},
                              !.n = same.n + 1]

\* triggerAnalysis without the isAnalysisRunning guard
triggerAnalysisUnguarded(running, pend, promise, prevC, prevG, cs, n) ==
    IF ~mainWindow \/ Len(screenshotPaths) = 0
    THEN Entry(running, pend, promise, cs, n)
    ELSE StartCall(Entry(running, pend, promise, cs, n), prevC, prevG)

\* triggerAnalysis returning while running without setting pendingAnalysis
triggerAnalysisForgets(running, pend, promise, prevC, prevG, cs, n) ==
    IF ~mainWindow \/ Len(screenshotPaths) = 0
    THEN Entry(running, pend, promise, cs, n)
    ELSE IF running
         THEN [Entry(running, pend, promise, cs, n) EXCEPT !.hit = TRUE]
         ELSE StartCall(Entry(running, pend, promise, cs, n), prevC, prevG)

\* triggerAnalysis entered with the given values of isAnalysisRunning,
\* pendingAnalysis, analysisPromise, the two stored analyses and the calls in
\* flight; the result is the state it leaves (up to its await)
triggerAnalysis(running, pend, promise, prevC, prevG, cs, n) ==
    IF ~mainWindow \/ Len(screenshotPaths) = 0
    THEN Entry(running, pend, promise, cs, n)
    ELSE IF running
         THEN [Entry(running, pend, promise, cs, n)
                 EXCEPT !.pend = TRUE, !.hit = TRUE]
         ELSE StartCall(Entry(running, pend, promise, cs, n), prevC, prevG)

\* the assignments of a triggerAnalysis result to the program state
Apply(out) ==
    /\ isAnalysisRunning' = out.run
    /\ pendingAnalysis' = out.pend
    /\ analysisPromise' = out.promise
    /\ calls' = out.calls
    /\ nCalls' = out.n
    /\ availableModels' = out.models
    /\ currentModelIndex' = out.idx
    /\ modelsFetchPromise' = out.fetch

\* the history of a triggerAnalysis result entered from source (the timer,
\* a manual trigger or the finally block): a call started, or the trigger
\* found a call running
Record(out, source) ==
    /\ midFlight' = IF out.n > nCalls THEN 0
                    ELSE IF out.hit /\ midFlight < 2
                         THEN FairH(midFlight + 1, midFlight)
                    ELSE midFlight
    /\ lastStart' = IF out.n > nCalls THEN FlightH(source, lastStart)
                     ELSE lastStart
    /\ coalesced' = IF out.n > nCalls
                     THEN (IF source = "rerun" THEN midFlight ELSE 0)
                     ELSE coalesced
    /\ owed' = IF out.n > nCalls \/ source = "manual" THEN FALSE ELSE owed
    /\ quiet' = IF source = "manual" THEN FALSE ELSE quiet
    /\ cancelled' = IF source = "manual" THEN {} ELSE cancelled
    /\ cold' = IF out.n > nCalls THEN 0 ELSE cold
    /\ aborted' = IF out.abort THEN ModelH(TRUE, aborted) ELSE aborted
    /\ unseen' =
          LET started == out.calls \ calls
              handed == UNION {Range(c.paths) : c \in started}
          IN IF started = {} THEN unseen
             ELSE IF unseen # Null THEN Some(unseen[1] \ handed)
             ELSE IF \E c \in started : Len(c.paths) = MAX_SCREENSHOTS
                  THEN SeenH(Some({}), unseen)
             ELSE unseen

\* the body shared by the Cmd+Enter shortcut and the submit-prompt handler
\* (with an empty ring both only send a message to the window)
ManualBody ==
    /\ mainWindow
    /\ nCalls < MaxCalls
    /\ IF Len(screenshotPaths) = 0
       THEN UNCHANGED <<flightVars, availableModels, currentModelIndex,
                        modelsFetchPromise, timerVars, ghostFlight, unseen>>
       ELSE LET out == triggerAnalysis(isAnalysisRunning,
                                       cancelScheduledAnalysis.pend,
                                       analysisPromise, previousCodeAnalysis,
                                       previousGeneralAnalysis, calls, nCalls)
            IN /\ analysisTimer' = cancelScheduledAnalysis.timer
               /\ armedTimers' = cancelScheduledAnalysis.armed
               /\ scheduled' = 0
               /\ Apply(out)
               /\ Record(out, "manual")
    /\ UNCHANGED <<history, job, providers, dev, lastSaved, ghostCtx, mainWindow, domReadyPending, apiKeyConfigured, ringVars,
                   ctxVars, cachedModels, currentMode, cap, lastTs, unlinked,
                   ghostRing>>

\* Cmd+Enter: 'show-loading' is sent unless the ring is empty
ManualTrigger ==
    /\ ManualBody
    /\ loading' = IF Len(screenshotPaths) = 0 THEN loading
                  ELSE LiveH(TRUE, loading)

\* ipcMain.on('submit-prompt'): 'show-loading' is sent, or with an empty
\* ring an 'analysis-result' that says so
SubmitPrompt ==
    /\ ManualBody
    /\ loading' = IF Len(screenshotPaths) = 0 THEN FALSE
                  ELSE LiveH(TRUE, loading)

\* the timer set by scheduleAnalysis expires
TimerFired ==
    /\ armedTimers > 0
    /\ nCalls < MaxCalls
    /\ analysisTimer' = FALSE
    /\ armedTimers' = armedTimers - 1
    /\ scheduled' = scheduled
    /\ loading' = IF mainWindow /\ Len(screenshotPaths) > 0
                  THEN LiveH(TRUE, loading) ELSE loading
    /\ LET out == triggerAnalysis(isAnalysisRunning, pendingAnalysis,
                                  analysisPromise, previousCodeAnalysis,
                                  previousGeneralAnalysis, calls, nCalls)
       IN /\ Apply(out)
          /\ Record(out, "timer")
    /\ UNCHANGED <<history, job, providers, dev, lastSaved, ghostCtx, mainWindow, domReadyPending, apiKeyConfigured, ringVars,
                   ctxVars, cachedModels, currentMode, cap, lastTs, unlinked,
                   ghostRing>>

\* ------------------------------------------------------------- captures
Waiting == {p \in Procs : cap[p].pc = "wait"}

\* the capture timestamps explored
ShotLimit == IF history = "wrap" THEN MaxWrapShots ELSE MaxShots

\* Cmd+H: takeScreenshot hides the window, waits 300 ms, takes the image
\* and enters saveScreenshot, which awaits mkdir (invocations are anonymous:
\* a new one takes the lowest free index)
takeScreenshot(p) ==
    /\ mainWindow
    /\ lastTs + Cardinality(Waiting) < ShotLimit
    /\ cap[p].pc = "idle"
    /\ \A q \in Procs : q < p => cap[q].pc # "idle"
    /\ cap' = [cap EXCEPT ![p] = [IdleCap EXCEPT !.pc = "wait"]]
    /\ overlap' = RingH(overlap \/ \E q \in Procs : cap[q].pc # "idle", overlap)
    /\ UNCHANGED <<history, job, providers, dev, unseen, lastSaved, loading, ghostCtx, mainWindow, domReadyPending, apiKeyConfigured, ringVars,
                   ctxVars, modelVars, currentMode, flightVars, timerVars,
                   lastTs, unlinked, nInserts, evicted, ghostFlight>>

\* every capture method fails, or mkdir / writeFile rejects: takeScreenshot
\* ends without an insert
CaptureFailed(p) ==
    /\ cap[p].pc \in {"wait", "write"}
    /\ cap' = [cap EXCEPT ![p] = IdleCap]
    /\ UNCHANGED <<history, job, providers, dev, unseen, lastSaved, loading, ghostCtx, mainWindow, domReadyPending, apiKeyConfigured, ringVars,
                   ctxVars, modelVars, currentMode, flightVars, timerVars,
                   lastTs, unlinked, ghostRing, ghostFlight>>

\* nextSlot that stays on the last slot instead of wrapping
NextSlotNoWrap(count) ==
    IF count >= MAX_SCREENSHOTS THEN MAX_SCREENSHOTS ELSE count + 1

\* nextSlot as saveScreenshot computes it
NextSlot(count) == IF count >= MAX_SCREENSHOTS THEN 1 ELSE count + 1

\* the values Date.now() can give capture p: a later millisecond than the
\* previous capture's, or the same one when p's 300 ms wait had already begun
\* when that millisecond was first read (tie)
Timestamps(p) == {lastTs + 1} \cup (IF cap[p].tie THEN {lastTs} ELSE {})

\* saveScreenshot after mkdir: nextSlot, timestamp and filePath are fixed and
\* writeFile is awaited
SaveCompute(p) ==
    /\ cap[p].pc = "wait"
    /\ \E t \in Timestamps(p) :
          /\ t <= ShotLimit
          /\ lastTs' = t
          /\ cap' = [q \in Procs |->
                       IF q = p
                       THEN [cap[p] EXCEPT !.pc = "write",
                                           !.slot = NextSlot(screenshotCount),
                                           !.ts = t,
                                           !.tie = FALSE]
                       ELSE IF cap[q].pc = "wait" /\ t > lastTs
                            THEN [cap[q] EXCEPT !.tie = TRUE]
                            ELSE cap[q]]
    /\ UNCHANGED <<history, job, providers, dev, unseen, lastSaved, loading, ghostCtx, mainWindow, domReadyPending, apiKeyConfigured, ringVars,
                   ctxVars, modelVars, currentMode, flightVars, timerVars,
                   unlinked, ghostRing, ghostFlight>>

\* storing by push whatever the slot
StorePathAppends(paths, slotIndex, filePath) ==
    [paths |-> Append(paths, filePath), previousPath |-> Null]

\* storing that overwrites the first slot whenever it does not push
StorePathSlotOne(paths, slotIndex, filePath) ==
    IF Len(paths) < MAX_SCREENSHOTS /\ ~(slotIndex < Len(paths))
    THEN [paths |-> Append(paths, filePath), previousPath |-> Null]
    ELSE [paths |-> [paths EXCEPT ![1] = filePath],
          previousPath |-> Some(paths[1])]

\* the ring after storing filePath at slotIndex, and the path it replaced
StorePath(paths, slotIndex, filePath) ==
    IF Len(paths) < MAX_SCREENSHOTS /\ ~(slotIndex < Len(paths))
    THEN [paths |-> Append(paths, filePath), previousPath |-> Null]
    ELSE [paths |-> [paths EXCEPT ![slotIndex + 1] = filePath],
          previousPath |-> Some(paths[slotIndex + 1])]

\* the paths saveScreenshot unlinks after the commit
Unlinks(previousPath, filePath) ==
    IF previousPath # Null /\ previousPath[1] # filePath
    THEN {previousPath[1]} ELSE {}

\* auto-trigger on a full ring only
AutoTriggerFullOnly(count, mode, prevC, prevG) == count = MAX_SCREENSHOTS

\* auto-trigger on a first slot with context only
AutoTriggerContextOnly(count, mode, prevC, prevG) ==
    LET hasContext == IF mode = "code" THEN prevC # Null ELSE prevG # Null
    IN count = 1 /\ hasContext

\* the auto-trigger condition of saveScreenshot
AutoTrigger(count, mode, prevC, prevG) ==
    LET hasContext == IF mode = "code" THEN prevC # Null ELSE prevG # Null
    IN count = MAX_SCREENSHOTS \/ (count = 1 /\ hasContext)

\* saveScreenshot after writeFile: commit the path and the count, unlink the
\* replaced file, notify the window and schedule the analysis
SaveCommit(p) ==
    /\ cap[p].pc = "write"
    /\ LET nextSlot == cap[p].slot
           filePath == <<nextSlot, cap[p].ts>>
           st == StorePath(screenshotPaths, nextSlot - 1, filePath)
           gone == Unlinks(st.previousPath, filePath)
           sched == mainWindow /\ AutoTrigger(nextSlot, currentMode,
                                              previousCodeAnalysis,
                                              previousGeneralAnalysis)
       IN /\ screenshotPaths' = st.paths
          /\ screenshotCount' = nextSlot
          /\ unlinked' = FilesH(unlinked \cup gone, unlinked)
          /\ evicted' = RingH(evicted \cup gone, evicted)
          /\ lastSaved' = RingH(Some(filePath), lastSaved)
          /\ unseen' = IF unseen # Null /\ nCalls < MaxCalls
                        THEN Some(unseen[1] \cup {filePath}) ELSE unseen
          /\ analysisTimer' = IF sched THEN scheduleAnalysis.timer
                               ELSE analysisTimer
          /\ armedTimers' = IF sched THEN scheduleAnalysis.armed
                             ELSE armedTimers
          /\ scheduled' = IF ~sched THEN scheduled
                           ELSE IF analysisTimer /\ scheduled < 2
                                THEN FairH(scheduled + 1, scheduled)
                           ELSE IF analysisTimer THEN scheduled
                           ELSE FairH(1, scheduled)
    /\ nInserts' = RingH(nInserts + 1, nInserts)
    /\ cap' = [cap EXCEPT ![p] = IdleCap]
    /\ quiet' = FALSE
    /\ cancelled' = {}
    /\ cold' = IF cold = 1 THEN 2 ELSE cold
    /\ owed' = IF mainWindow /\ cap[p].slot = MAX_SCREENSHOTS
               THEN FairH(TRUE, owed) ELSE owed
    /\ UNCHANGED <<history, job, providers, dev, loading, ghostCtx, mainWindow, domReadyPending, apiKeyConfigured, ctxVars,
                   modelVars, currentMode, flightVars, lastTs, overlap,
                   midFlight, lastStart, coalesced, aborted>>

\* ------------------------------------------------------- analyzer calls
\* processImages of an in-flight analyzer call finishes with at least one
\* valid image and the provider request is sent
ProcessImages(c) ==
    /\ c \in calls
    /\ c.stage = "images"
    /\ calls' = (calls \ {c}) \cup {[c EXCEPT !.stage = "gateway"]}
    /\ UNCHANGED <<history, job, providers, dev, unseen, lastSaved, loading, ghostCtx, mainWindow, domReadyPending, apiKeyConfigured, ringVars,
                   ctxVars, modelVars, currentMode, isAnalysisRunning,
                   pendingAnalysis, analysisPromise, nCalls, timerVars,
                   cap, lastTs, unlinked, ghostRing, ghostFlight>>

\* the outcomes an analyzer call can have at its stage: no valid image (an
\* error result without a provider request), a parsed result, an error
\* result, or (code mode) a result whose language is not a string, on which
\* the markdown template throws
Outcomes(c) ==
    IF c.stage = "images" THEN {"error"}
    ELSE {"ok", "error"} \cup (IF c.mode = "code" THEN {"throw"} ELSE {})

\* the analysis stored on return is that of the mode current on return
StoreModeCurrent(c) == currentMode

\* the mode whose analysis the call stores on return: the branch taken when
\* the call started
StoreMode(c) == c.mode

\* a result reaches the window only while the ring is not empty
ResultSentIfRing == mainWindow /\ Len(screenshotPaths) > 0

\* mainWindow?.webContents.send('analysis-result', ...), in the try block or
\* the catch block: the window receives the result
ResultSent == mainWindow

\* a finally block that never reruns
RerunDueNever == FALSE

\* a finally block that reruns whether or not a rerun was requested
RerunDueUnasked == mainWindow /\ Len(screenshotPaths) > 0

\* the condition on which the finally block of triggerAnalysis reruns
RerunDue == pendingAnalysis /\ mainWindow /\ Len(screenshotPaths) > 0

\* the analyzer call returns: try / catch / finally of triggerAnalysis
AnalysisDone(c) ==
    /\ c \in calls
    /\ \E outcome \in Outcomes(c) :
         LET stored == outcome # "throw"
             prevC == IF StoreMode(c) = "code" /\ stored
                      THEN Some(Serialized(c.id, outcome))
                      ELSE previousCodeAnalysis
             prevG == IF StoreMode(c) = "general" /\ stored
                      THEN Some(Serialized(c.id, outcome))
                      ELSE previousGeneralAnalysis
             rest == calls \ {c}
             out == IF RerunDue
                    THEN triggerAnalysis(FALSE, FALSE, FALSE, prevC, prevG,
                                         rest, nCalls)
                    ELSE Entry(FALSE, pendingAnalysis, FALSE, rest, nCalls)
         IN /\ previousCodeAnalysis' = prevC
            /\ previousGeneralAnalysis' = prevG
            /\ Apply(out)
            /\ Record(out, "rerun")
            /\ lastOutcome' = CtxH(outcome, lastOutcome)
            /\ crossed' = CtxH(c.mode # currentMode, crossed)
            /\ sent' = IF ResultSent THEN CtxH(c.id, sent) ELSE sent
            /\ loading' = IF ResultSent THEN FALSE ELSE loading
    /\ UNCHANGED <<history, job, providers, dev, lastSaved, mainWindow, domReadyPending, apiKeyConfigured, ringVars,
                   cachedModels, currentMode, timerVars, cap, lastTs,
                   unlinked, ghostRing>>

\* ------------------------------------------------------- specifications
\* The orchestrator with every handler; captures are serialised (the user
\* presses Cmd+H again only after the previous capture has finished).
Next ==
    \/ CreateWindow
    \/ DomReady
    \/ WindowClosed
    \/ ModelsFetched
    \/ switchModel
    \/ toggleAnalysisMode
    \/ ResetShortcut
    \/ ManualTrigger
    \/ SubmitPrompt
    \/ TimerFired
    \/ \E p \in {1} : takeScreenshot(p)
    \/ \E p \in Procs : CaptureFailed(p)
    \/ \E p \in Procs : SaveCompute(p)
    \/ \E p \in Procs : SaveCommit(p)
    \/ \E c \in calls : ProcessImages(c)
    \/ \E c \in calls : AnalysisDone(c)

Spec == Init /\ [][Next]_vars

\* The state once the window is up, dom-ready has run and the model-list
\* fetch has returned the fallback list.
Started ==
    /\ mainWindow = TRUE
    /\ domReadyPending = FALSE
    /\ apiKeyConfigured = TRUE
    /\ screenshotCount = 0
    /\ screenshotPaths = <<>>
    /\ previousCodeAnalysis = Null
    /\ previousGeneralAnalysis = Null
    /\ currentModelIndex = 0
    /\ availableModels = FALLBACK_MODELS
    /\ currentMode = "code"
    /\ isAnalysisRunning = FALSE
    /\ pendingAnalysis = FALSE
    /\ analysisPromise = FALSE
    /\ analysisTimer = FALSE
    /\ cachedModels = Some(FALLBACK_MODELS)
    /\ modelsFetchPromise = FALSE
    /\ cap = [p \in Procs |-> IdleCap]
    /\ lastTs = 0
    /\ calls = {}
    /\ unlinked = {}
    /\ nCalls = 0
    /\ nInserts = 0
    /\ overlap = FALSE
    /\ evicted = {}
    /\ midFlight = 0
    /\ owed = FALSE
    /\ quiet = FALSE
    /\ cancelled = {}
    /\ lastStart = "none"
    /\ coalesced = 0
    /\ armedTimers = 0
    /\ scheduled = 0
    /\ cold = 0
    /\ aborted = FALSE
    /\ lastOutcome = "none"
    /\ crossed = FALSE
    /\ sent = 0
    /\ loading = FALSE
    /\ unseen = Null
    /\ lastSaved = Null
    /\ dev = NoDev

InitReady == Started /\ job = NoJob /\ providers = NoProviders
    /\ history = "ring"

\* The capture ring under overlapping takeScreenshot invocations (Cmd+H
\* pressed again while a capture is still being saved) and resets.
NextRing ==
    \/ ResetShortcut
    \/ \E p \in Procs : takeScreenshot(p)
    \/ \E p \in Procs : CaptureFailed(p)
    \/ \E p \in Procs : SaveCompute(p)
    \/ \E p \in Procs : SaveCommit(p)

RingSpec == InitReady /\ [][NextRing]_vars

\* The same ring followed through more captures, so that it wraps more than
\* once.
InitWrap ==
    Started /\ job = NoJob /\ providers = NoProviders /\ history = "wrap"

WrapSpec == InitWrap /\ [][NextRing]_vars

\* The orchestrator once the model list is fetched, captures serialised.  The event loop runs every expired timer
\* and every settled promise, so the timer callback and the continuations
\* of an analyzer call are weakly fair; what the user does is not.
InitFair == Started /\ job = NoJob /\ providers = NoProviders
    /\ history = "fair"

NextFair ==
    \/ CreateWindow
    \/ DomReady
    \/ WindowClosed
    \/ toggleAnalysisMode
    \/ ResetShortcut
    \/ ManualTrigger
    \/ SubmitPrompt
    \/ TimerFired
    \/ \E p \in {1} : takeScreenshot(p)
    \/ \E p \in Procs : CaptureFailed(p)
    \/ \E p \in Procs : SaveCompute(p)
    \/ \E p \in Procs : SaveCommit(p)
    \/ \E c \in calls : ProcessImages(c)
    \/ \E c \in calls : AnalysisDone(c)

FairSpec ==
    /\ InitFair
    /\ [][NextFair]_vars
    /\ WF_vars(TimerFired)
    /\ WF_vars(\E c \in calls : ProcessImages(c))
    /\ WF_vars(\E c \in calls : AnalysisDone(c))

\* The same orchestrator, recording what becomes of the stored analyses
\* and of the results sent to the window.
InitCtx == Started /\ job = NoJob /\ providers = NoProviders
    /\ history = "ctx"

CtxSpec == InitCtx /\ [][NextFair]_vars

\* Model selection from start-up: the model-list fetch, Cmd+M and the
\* triggers, with the window closed and reopened.
InitModel == Boot /\ history = "model"

NextModel ==
    \/ CreateWindow
    \/ DomReady
    \/ WindowClosed
    \/ ModelsFetched
    \/ switchModel
    \/ ManualTrigger
    \/ TimerFired
    \/ \E p \in {1} : takeScreenshot(p)
    \/ \E p \in Procs : CaptureFailed(p)
    \/ \E p \in Procs : SaveCompute(p)
    \/ \E p \in Procs : SaveCommit(p)
    \/ \E c \in calls : ProcessImages(c)
    \/ \E c \in calls : AnalysisDone(c)

ModelSpec == InitModel /\ [][NextModel]_vars

\* The same from start-up with the submit-prompt message, recording whether
\* the window is left in the loading state.  The event loop runs every
\* expired timer and every continuation of a settled promise, and the
\* model-list request settles.
InitLive == Boot /\ history = "live"

NextLive == NextModel \/ SubmitPrompt

LiveSpec ==
    /\ InitLive
    /\ [][NextLive]_vars
    /\ WF_vars(TimerFired)
    /\ WF_vars(ModelsFetched)
    /\ WF_vars(\E c \in calls : ProcessImages(c))
    /\ WF_vars(\E c \in calls : AnalysisDone(c))

TypeOK ==
    /\ armedTimers \in 0..1
    /\ scheduled \in 0..2
    /\ cold \in 0..2
    /\ aborted \in BOOLEAN
    /\ lastOutcome \in {"none", "ok", "error", "throw"}
    /\ sent \in 0..MaxCalls
    /\ loading \in BOOLEAN
    /\ unseen = Null \/ unseen[1] \subseteq (1..MAX_SCREENSHOTS) \X (1..ShotLimit)
    /\ lastSaved = Null
          \/ lastSaved[1] \in (1..MAX_SCREENSHOTS) \X (1..ShotLimit)
    /\ dev.phase \in {"load", "watching", "exited"}
    /\ dev.electronProcess \in 0..MaxSpawns
    /\ dev.spawned \in 0..MaxSpawns
    /\ dev.autoRestartTimeout \in 0..MaxSpawns
    /\ dev.autoTimers \subseteq 1..MaxSpawns
    /\ crossed \in BOOLEAN
    /\ mainWindow \in BOOLEAN
    /\ midFlight \in 0..2
    /\ coalesced \in 0..2
    /\ lastStart \in {"none", "manual", "timer", "rerun"}
    /\ cancelled \subseteq {"timer", "rerun"}
    /\ nInserts \in Nat
    /\ screenshotCount \in 0..MAX_SCREENSHOTS
    /\ currentMode \in Modes
    /\ isAnalysisRunning \in BOOLEAN
    /\ pendingAnalysis \in BOOLEAN
    /\ lastTs \in 0..MaxWrapShots
    /\ nCalls \in 0..MaxCalls


\* ------------------------------------------------------------- properties
CallIds(cs) == {c.id : c \in cs}

\* a step in which the analyzer call in flight returns
Completes == CallIds(calls) \ CallIds(calls') # {}

\* a step in which saveScreenshot commits a new path
Inserts == screenshotPaths' # screenshotPaths /\ screenshotPaths' # <<>>

\* the auto-trigger condition as the specification words it, on the state
\* after an insert
DueAfterInsert ==
    \/ screenshotCount' = MAX_SCREENSHOTS
    \/ /\ screenshotCount' = 1
       /\ IF currentMode' = "code" THEN previousCodeAnalysis' # Null
                                   ELSE previousGeneralAnalysis' # Null

\* C1: in every reachable state at most one analyzer call is in flight (and
\* one is in flight exactly while isAnalysisRunning); a trigger (Cmd+Enter,
\* submit-prompt or the timer) taken while isAnalysisRunning starts no call
\* and, the window open and the ring non-empty, leaves pendingAnalysis set.
SingleFlight ==
    /\ [](Cardinality(calls) <= 1 /\ (isAnalysisRunning <=> calls # {}))
    /\ [][(isAnalysisRunning /\ (ManualTrigger \/ SubmitPrompt \/ TimerFired))
            => /\ calls' = calls
               /\ nCalls' = nCalls
               /\ (mainWindow /\ Len(screenshotPaths) > 0)
                     => pendingAnalysis']_vars

SingleFlightSeen ==
    /\ isAnalysisRunning
    /\ pendingAnalysis
    /\ Cardinality(calls) = 1
    /\ midFlight = 2

\* C2 as stated: when the call in flight returns after one or more triggers
\* found it running (none cancelled by a reset or mode toggle), the ring
\* non-empty and a model available, one further call starts.
RerunOnceUnconditional ==
    [][(Completes /\ midFlight >= 1 /\ Len(screenshotPaths) > 0
          /\ currentModelAvailable)
         => nCalls' = nCalls + 1]_vars

\* C2: when the call in flight returns after one or more triggers found it
\* running (none cancelled by a reset or mode toggle), the ring non-empty, a
\* model available and the window open, exactly one further call starts and
\* pendingAnalysis is clear; when it returns with no trigger outstanding, no
\* call starts.
RerunOnce ==
    [][Completes =>
         /\ (midFlight >= 1 /\ mainWindow /\ Len(screenshotPaths) > 0
               /\ currentModelAvailable)
              => /\ nCalls' = nCalls + 1
                 /\ Cardinality(calls') = 1
                 /\ isAnalysisRunning'
                 /\ ~pendingAnalysis'
         /\ midFlight = 0 => nCalls' = nCalls]_vars

RerunOnceSeen ==
    /\ lastStart = "rerun"
    /\ coalesced = 2
    /\ nCalls = 2
    /\ isAnalysisRunning
    /\ ~pendingAnalysis

AutoTriggerIffAlways ==
    [][Inserts =>
         /\ DueAfterInsert => analysisTimer'
         /\ (~DueAfterInsert /\ ~analysisTimer) => ~analysisTimer']_vars

\* C4: after an insert made while the window is open a timer is pending if
\* screenshotCount = MAX_SCREENSHOTS, or screenshotCount = 1 and the current
\* mode has a previous analysis; none is newly pending otherwise.
AutoTriggerIff ==
    [][(Inserts /\ mainWindow) =>
         /\ DueAfterInsert => analysisTimer'
         /\ (~DueAfterInsert /\ ~analysisTimer) => ~analysisTimer']_vars

AutoTriggerIffSeen ==
    /\ screenshotCount = 1
    /\ Len(screenshotPaths) = MAX_SCREENSHOTS
    /\ currentMode = "general"
    /\ previousGeneralAnalysis # Null
    /\ analysisTimer
    /\ ~isAnalysisRunning
    /\ lastStart = "manual"

Wraparound ==
    /\ []((~overlap /\ nInserts >= 1)
            => /\ screenshotCount = ((nInserts - 1) % MAX_SCREENSHOTS) + 1
               /\ \A i \in 1..Len(screenshotPaths) : screenshotPaths[i][1] = i)
    /\ [][(~overlap' /\ nInserts' = nInserts + 1
             /\ nInserts >= MAX_SCREENSHOTS)
            => /\ screenshotPaths[screenshotCount'] \in unlinked' \ unlinked
               /\ screenshotPaths[screenshotCount'] \notin Range(screenshotPaths')
          ]_vars

WraparoundSeen ==
    /\ ~overlap
    /\ nInserts = 3
    /\ screenshotCount = 1
    /\ screenshotPaths[1][1] = 1
    /\ unlinked = {<<1, 1>>}

\* C7: in every reachable state screenshotPaths holds at most
\* MAX_SCREENSHOTS paths and screenshotCount is in 0..MAX_SCREENSHOTS, and is
\* 0 only when no insert has been made since start-up or the last reset.
RingBounds ==
    /\ Len(screenshotPaths) <= MAX_SCREENSHOTS
    /\ screenshotCount \in 0..MAX_SCREENSHOTS
    /\ screenshotCount = 0 => nInserts = 0

RingBoundsSeen ==
    /\ overlap
    /\ nInserts > MAX_SCREENSHOTS
    /\ Len(screenshotPaths) = MAX_SCREENSHOTS
    /\ \E p \in Procs : cap[p].pc = "write"

\* C8 as stated: a path replaced in the ring by an insert is never again an
\* element of screenshotPaths.
EvictedStaysOut == evicted \cap Range(screenshotPaths) = {}

\* C9: the reset leaves screenshotCount = 0, screenshotPaths empty, both
\* previous analyses null and no timer pending, and has handed every path
\* of the ring to unlink.
ResetPostState ==
    [][ResetShortcut =>
         /\ screenshotCount' = 0
         /\ screenshotPaths' = <<>>
         /\ previousCodeAnalysis' = Null
         /\ previousGeneralAnalysis' = Null
         /\ ~analysisTimer'
         /\ Range(screenshotPaths) \subseteq unlinked']_vars

ResetPostStateSeen ==
    /\ quiet
    /\ "timer" \in cancelled
    /\ Cardinality(unlinked) >= MAX_SCREENSHOTS
    /\ screenshotCount = 0
    /\ isAnalysisRunning

\* C10: from a reset until a capture completes or a manual trigger is made
\* no timer and no rerun is pending and no call starts.
QuietAfterReset ==
    /\ [](quiet => (~analysisTimer /\ ~pendingAnalysis))
    /\ [][(quiet /\ quiet') => nCalls' = nCalls]_vars

QuietAfterResetSeen ==
    /\ quiet
    /\ cancelled = {"timer", "rerun"}
    /\ ~isAnalysisRunning
    /\ nCalls = 1

\* C11: a reset leaves isAnalysisRunning and the call in flight as they are;
\* isAnalysisRunning falls only in the step in which that call returns; that
\* step sends the call's result to the window (if it is still open) and
\* leaves the ring unchanged, so that from the reset to the next capture
\* screenshotCount is 0 and screenshotPaths is empty.
ResetSparesCall ==
    /\ [][ResetShortcut => (isAnalysisRunning' = isAnalysisRunning
                            /\ calls' = calls)]_vars
    /\ [][(isAnalysisRunning /\ ~isAnalysisRunning') => Completes]_vars
    /\ [][\A c \in calls :
            (c.id \notin CallIds(calls') /\ mainWindow) => sent' = c.id]_vars
    /\ [][Completes => UNCHANGED ringVars]_vars
    /\ [](cold = 1 => (screenshotCount = 0 /\ screenshotPaths = <<>>))

ResetSparesCallSeen ==
    /\ cold = 1
    /\ sent = 1
    /\ lastOutcome = "ok"
    /\ ~isAnalysisRunning
    /\ previousCodeAnalysis # Null
    /\ screenshotCount = 0
    /\ screenshotPaths = <<>>

\* C12 as stated: the first analyzer call started after a reset carries no
\* previous context, and the first capture after a reset, which leaves
\* screenshotCount = 1, schedules no automatic analysis; whatever was in
\* flight when the reset happened.
ColdAfterReset ==
    /\ [][(cold >= 1 /\ nCalls' > nCalls)
            => \A c \in calls' : c.id = nCalls' => c.prev = Null]_vars
    /\ [][(cold = 1 /\ Inserts /\ screenshotCount' = 1)
            => ~analysisTimer']_vars

\* the stored analysis of mode m
StoredOf(m) ==
    IF m = "code" THEN previousCodeAnalysis ELSE previousGeneralAnalysis

OtherMode(m) == IF m = "code" THEN "general" ELSE "code"

\* C13: a call that starts takes the current mode as its mode and the stored
\* analysis of that mode as its previous context; a call that returns leaves
\* the stored analysis of the other mode unchanged, whatever the current
\* mode is by then; and the stored analysis of a mode changes only when a
\* call of that mode returns or in a reset.
ModeIsolation ==
    /\ [][\A c \in calls' :
            c.id \notin CallIds(calls)
               => (c.mode = currentMode /\ c.prev = StoredOf(c.mode)')]_vars
    /\ [][\A c \in calls :
            c.id \notin CallIds(calls')
               => StoredOf(OtherMode(c.mode))' = StoredOf(OtherMode(c.mode))
         ]_vars
    /\ [][\A m \in Modes :
            StoredOf(m)' # StoredOf(m)
               => \/ ResetShortcut
                  \/ \E c \in calls : c.mode = m /\ c.id \notin CallIds(calls')
         ]_vars

ModeIsolationSeen ==
    /\ crossed
    /\ lastOutcome = "ok"
    /\ currentMode = "code"
    /\ previousGeneralAnalysis = Some(Serialized(2, "ok"))
    /\ previousCodeAnalysis = Some(Serialized(1, "ok"))
    /\ ~isAnalysisRunning

\* C14 as stated: when an analyzer call fails (the provider request errors,
\* no valid image could be prepared, or rendering the result throws) both
\* stored analyses keep the values they had.
FailureKeepsContext ==
    [][(Completes /\ lastOutcome' \in {"error", "throw"})
         => UNCHANGED ctxVars]_vars

\* C15: when a call of mode m returns a parsed result, the stored analysis
\* of mode m becomes the serialization of that call's result; a call that
\* starts in mode m carries the stored analysis of mode m as it is then, and
\* the rerun started in the step in which a call of the same mode returned a
\* parsed result carries exactly that call's serialized result; a stored
\* analysis is kept until a call returns or a reset clears it.
ContextThreads ==
    /\ [][\A c \in calls :
            (c.id \notin CallIds(calls') /\ lastOutcome' = "ok")
               => StoredOf(c.mode)' = Some(Serialized(c.id, "ok"))]_vars
    /\ [][\A d \in calls' :
            d.id \notin CallIds(calls) => d.prev = StoredOf(d.mode)']_vars
    /\ [][\A c \in calls, d \in calls' :
            (c.id \notin CallIds(calls') /\ d.id \notin CallIds(calls)
               /\ lastOutcome' = "ok" /\ d.mode = c.mode)
               => d.prev = Some(Serialized(c.id, "ok"))]_vars
    /\ [][\A m \in Modes :
            (StoredOf(m) # Null /\ StoredOf(m)' # StoredOf(m))
               => (ResetShortcut \/ Completes)]_vars

ContextThreadsSeen ==
    /\ lastStart = "rerun"
    /\ lastOutcome = "ok"
    /\ previousCodeAnalysis = Some(Serialized(1, "ok"))
    /\ \E d \in calls : /\ d.id = 2
                        /\ d.mode = "code"
                        /\ d.prev = Some(Serialized(1, "ok"))
                        /\ d.stage = "gateway"

\* C16: the call started in the step in which the call in flight returns is
\* handed screenshotPaths as it is in that step and runs in the mode current
\* in that step (neither is what it was when the trigger that asked for the
\* rerun arrived, or when the returning call started).
RerunReadsNow ==
    [][(Completes /\ nCalls' > nCalls)
         => \A d \in calls' : /\ d.paths = screenshotPaths
                              /\ d.mode = currentMode]_vars

RerunReadsNowSeen ==
    /\ lastStart = "rerun"
    /\ coalesced = 1
    /\ scheduled = 1
    /\ ~analysisTimer
    /\ previousCodeAnalysis # Null
    /\ \E d \in calls : /\ d.mode = "general"
                        /\ d.paths = <<<<1, 3>>, <<2, 2>>>>

\* C17: in every reachable state at most one timeout of scheduleAnalysis is
\* armed, and it is the one analysisTimer holds; a capture that schedules
\* while a timeout is armed replaces it, so that when the timer fires no
\* timeout is left and at most one call starts, however many captures
\* scheduled it; a timer that fires with the ring empty or the window closed
\* starts no call.
Debounce ==
    /\ [](armedTimers <= 1 /\ (analysisTimer <=> armedTimers = 1))
    /\ [][(Inserts /\ analysisTimer /\ scheduled' > scheduled)
            => (analysisTimer' /\ armedTimers' = 1)]_vars
    /\ [][TimerFired => /\ armedTimers' = 0
                        /\ ~analysisTimer'
                        /\ nCalls' <= nCalls + 1]_vars
    /\ [][(TimerFired /\ (Len(screenshotPaths) = 0 \/ ~mainWindow))
            => (nCalls' = nCalls /\ calls' = calls)]_vars

DebounceSeen ==
    /\ lastStart = "timer"
    /\ scheduled = 2
    /\ armedTimers = 0
    /\ ~analysisTimer
    /\ nCalls = 2
    /\ isAnalysisRunning

\* C18: the mode toggle flips currentMode; a step that changes currentMode
\* leaves no timer pending, starts no call and leaves the ring, both stored
\* analyses, isAnalysisRunning, the call in flight and the model selection
\* unchanged.
ToggleFrame ==
    /\ [][toggleAnalysisMode => currentMode' = OtherMode(currentMode)]_vars
    /\ [][currentMode' # currentMode
            => /\ ~analysisTimer'
               /\ armedTimers' = 0
               /\ nCalls' = nCalls
               /\ calls' = calls
               /\ isAnalysisRunning' = isAnalysisRunning
               /\ UNCHANGED <<ringVars, ctxVars, currentModelIndex,
                              availableModels>>]_vars

ToggleFrameSeen ==
    /\ currentMode = "general"
    /\ isAnalysisRunning
    /\ nCalls = 1
    /\ \E c \in calls : c.mode = "code" /\ Len(c.paths) = 1
    /\ screenshotCount = MAX_SCREENSHOTS
    /\ mainWindow
    /\ scheduled = 0
    /\ ~analysisTimer
    /\ ~pendingAnalysis

AbortKeepsState ==
    /\ [][((TimerFired \/ ManualTrigger)
            /\ mainWindow /\ Len(screenshotPaths) > 0 /\ ~isAnalysisRunning
            /\ ModelAt(ResolveModel.models, ResolveModel.idx) = NoModel)
           => /\ nCalls' = nCalls
              /\ calls' = calls
              /\ isAnalysisRunning' = isAnalysisRunning
              /\ (TimerFired => pendingAnalysis' = pendingAnalysis)
              /\ UNCHANGED <<ctxVars, ringVars>>]_vars
    /\ [][(Completes /\ RerunDue
            /\ ModelAt(ResolveModel.models, ResolveModel.idx) = NoModel)
           => /\ nCalls' = nCalls
              /\ calls' = {}
              /\ ~isAnalysisRunning'
              /\ ~pendingAnalysis'
              /\ UNCHANGED ringVars]_vars

AbortKeepsStateSeen ==
    /\ aborted
    /\ mainWindow
    /\ ~isAnalysisRunning
    /\ pendingAnalysis
    /\ nCalls = 1
    /\ previousCodeAnalysis # Null
    /\ screenshotCount = MAX_SCREENSHOTS
    /\ ModelAt(availableModels, currentModelIndex) = NoModel

\* C21: every analyzer call that starts is handed the whole of
\* screenshotPaths as it is when the call starts: every path of the ring, in
\* slot order, also when the newest capture is not the last slot.
WholeRingSent ==
    /\ [][\A d \in calls' :
            d.id \notin CallIds(calls)
               => (d.paths = screenshotPaths' /\ Len(d.paths) >= 1)]_vars
    /\ [](\A d \in calls : Len(d.paths) \in 1..MAX_SCREENSHOTS)

WholeRingSentSeen ==
    /\ screenshotCount = 1
    /\ Len(screenshotPaths) = MAX_SCREENSHOTS
    /\ \E d \in calls : /\ d.paths = screenshotPaths
                        /\ d.paths[1][2] > d.paths[2][2]
                        /\ d.stage = "gateway"

\* C22 as stated: at most one takeScreenshot invocation is in progress at a
\* time, and no two invocations hold the same slot computed from the same
\* screenshotCount.
CapturesSerialized ==
    /\ Cardinality({p \in Procs : cap[p].pc # "idle"}) <= 1
    /\ \A p, q \in Procs :
          (p # q /\ cap[p].pc = "write" /\ cap[q].pc = "write")
             => cap[p].slot # cap[q].slot

\* ------------------------------------------------------- services layer
\* The functions of the analyzers, the OpenRouter service and the providers
\* module, applied to arguments drawn from bounded sets.
MaxImages == 2        \* longest path list handed to an analyzer

MAX_IMAGE_BYTES == 20971520       \* 20 * 1024 * 1024

\* the sizes fs.stat reports that are explored: the boundaries of
\* validateImageFile (a file size is a non-negative integer)
Sizes == {0, 1, MAX_IMAGE_BYTES - 1, MAX_IMAGE_BYTES, MAX_IMAGE_BYTES + 1}

\* what a path leads to: stat rejects (Null) or reports a size, and readFile
\* resolves or rejects
Files ==
    [stat : {Null} \cup {Some(n) : n \in {0, MAX_IMAGE_BYTES,
                                           MAX_IMAGE_BYTES + 1}},
     readable : BOOLEAN]

PathLists == UNION {[1..n -> Files] : n \in 0..MaxImages}

\* validateImageFile that rejects a file of exactly the limit
validateImageFileStrict(stats) ==
    IF stats.size = 0
    THEN [isValid |-> FALSE, error |-> Some("Image file is empty")]
    ELSE IF stats.size >= MAX_IMAGE_BYTES
         THEN [isValid |-> FALSE,
               error |-> Some("Image file too large (max 20MB)")]
         ELSE [isValid |-> TRUE, error |-> Null]

validateImageFile(stats) ==
    IF stats.size = 0
    THEN [isValid |-> FALSE, error |-> Some("Image file is empty")]
    ELSE IF stats.size > MAX_IMAGE_BYTES
         THEN [isValid |-> FALSE,
               error |-> Some("Image file too large (max 20MB)")]
         ELSE [isValid |-> TRUE, error |-> Null]

\* the body of the map callback of processImages: the image content of one
\* path, or null
ImageOf(i, f) ==
    IF f.stat = Null THEN Null
    ELSE IF ~validateImageFile([size |-> f.stat[1]]).isValid THEN Null
    ELSE IF ~f.readable THEN Null
    ELSE Some(i)

\* processImages that rejects the batch when one image is dropped
processImagesAllOrNone(files) ==
    IF \E i \in 1..Len(files) : ImageOf(i, files[i]) = Null
    THEN <<>>
    ELSE [i \in 1..Len(files) |-> i]

\* the indices of paths that gave an image, in order
RECURSIVE ValidUpTo(_, _)
ValidUpTo(files, n) ==
    IF n = 0 THEN <<>>
    ELSE LET img == ImageOf(n, files[n])
         IN IF img = Null THEN ValidUpTo(files, n - 1)
            ELSE Append(ValidUpTo(files, n - 1), img[1])

\* processImages: the image contents (named by the index of their path)
\* that remain after the null results are filtered out
processImages(files) == ValidUpTo(files, Len(files))

\* ---- replies and their parsing (OpenRouterService)
CodeFields ==
    {"code", "summary", "timeComplexity", "spaceComplexity", "language"}

GeneralFields == {"answer", "explanation", "test"}

\* the value a reply gives a field (a non-empty string)
ValueOf ==
    [f \in CodeFields \cup GeneralFields |->
        CASE f = "code" -> "<code>"
          [] f = "summary" -> "<summary>"
          [] f = "timeComplexity" -> "<time>"
          [] f = "spaceComplexity" -> "<space>"
          [] f = "language" -> "<language>"
          [] f = "answer" -> "<answer>"
          [] f = "explanation" -> "<explanation>"
          [] f = "test" -> "<test>"]

\* A piece of text, as far as the parsers tell texts apart: it starts with
\* '{' and JSON.parse gives an object whose truthy fields are obj ("json"),
\* it starts with '{' and JSON.parse throws ("badjson"), it does not start
\* with '{' ("prose"), or it is empty ("blank").
Pieces(fields) ==
    {[k |-> "json", obj |-> o] : o \in SUBSET fields}
       \cup {[k |-> x, obj |-> {}] : x \in {"badjson", "prose", "blank"}}

NoFence == [k |-> "none", obj |-> {}]

\* A reply: the whole text (body) and the content of its first fenced block
\* (fence; NoFence when JSON_BLOCK_REGEX does not match).  An empty reply has
\* no fenced block; a reply that is itself JSON can hold a fenced block
\* inside one of its strings.
Replies(fields) ==
    {r \in [body : Pieces(fields), fence : Pieces(fields) \cup {NoFence}] :
        r.body.k = "blank" => r.fence = NoFence}

\* extractAndParseJson that parses the reply itself before its fenced block
extractAndParseJsonBodyFirst(reply) ==
    IF reply.body.k = "json" THEN Some(reply.body.obj)
    ELSE IF reply.fence.k = "json" THEN Some(reply.fence.obj)
    ELSE Null

\* extractAndParseJson: the parsed object, or null
extractAndParseJson(reply) ==
    LET jsonStr == IF reply.fence.k \notin {"none", "blank"}
                   THEN reply.fence ELSE reply.body
    IN IF jsonStr.k = "json" THEN Some(jsonStr.obj) ELSE Null

\* parsed.f || default
FieldOr(obj, f, default) == IF f \in obj THEN ValueOf[f] ELSE default

\* what extractComplexity finds: the rest of the line after a
\* "timeComplexity" / "spaceComplexity" key of a JSON reply, else nothing
\* (prose that names no complexity)
extractComplexity(reply, field) ==
    IF reply.body.k = "json" /\ field \in reply.body.obj
    THEN Some("<rest of line>") ELSE Null

\* extractFromText, for a text that names no language and whose fenced
\* block has no language tag: the fenced blocks or the head of the text as
\* code, the head of the text as summary
extractFromText(reply) ==
    [code |-> IF reply.fence.k \notin {"none", "blank"} THEN "<blocks>"
              ELSE IF reply.body.k = "blank" THEN "Code extraction failed"
              ELSE "<text>",
     summary |-> IF reply.body.k = "blank" THEN "" ELSE "<text>",
     timeComplexity |->
        IF extractComplexity(reply, "timeComplexity") # Null
        THEN extractComplexity(reply, "timeComplexity")[1]
        ELSE "Not identified",
     spaceComplexity |->
        IF extractComplexity(reply, "spaceComplexity") # Null
        THEN extractComplexity(reply, "spaceComplexity")[1]
        ELSE "Not identified",
     language |-> "Unknown"]

\* extractGeneralFromText, for a text with no answer / explanation / test
\* section
extractGeneralFromText(reply) ==
    [answer |-> IF reply.body.k = "blank" THEN "" ELSE "<text>",
     explanation |-> "Explanation unavailable",
     test |-> "No verification test provided"]

parseResponse(reply) ==
    LET parsed == extractAndParseJson(reply)
    IN IF parsed # Null
       THEN [code |-> FieldOr(parsed[1], "code", ""),
             summary |-> FieldOr(parsed[1], "summary", ""),
             timeComplexity |-> FieldOr(parsed[1], "timeComplexity", "O(?)"),
             spaceComplexity |-> FieldOr(parsed[1], "spaceComplexity", "O(?)"),
             language |-> FieldOr(parsed[1], "language", "Unknown")]
       ELSE extractFromText(reply)

parseGeneralResponse(reply) ==
    LET parsed == extractAndParseJson(reply)
    IN IF parsed # Null
       THEN [answer |-> FieldOr(parsed[1], "answer", ""),
             explanation |-> FieldOr(parsed[1], "explanation", ""),
             test |-> FieldOr(parsed[1], "test", "")]
       ELSE extractGeneralFromText(reply)

\* ---- errors, the service calls and the analyzers
\* An error message as its words; message.includes('API') looks for the word.
Includes(message, word) == \E i \in 1..Len(message) : message[i] = word

\* what a rejected HTTP call or a throwing callback hands to the catch
\* block: an Error with a message, or a value that is no Error (message is
\* then String(value))
Thrown ==
    {[isError |-> TRUE, message |-> <<"Connection", "error.">>],
     [isError |-> TRUE, message |-> <<"Request", "timed", "out.">>],
     [isError |-> TRUE, message |-> <<"401", "Incorrect", "API", "key">>],
     [isError |-> FALSE, message |-> <<"API", "down">>]}

NoError == [isError |-> FALSE, message |-> <<>>]

\* the replies the analyzers are run on
SampleReplies(fields) ==
    {[body |-> b, fence |-> NoFence] :
        b \in {[k |-> "json", obj |-> fields], [k |-> "json", obj |-> {}],
               [k |-> "prose", obj |-> {}]}}

\* chat.completions.create: rejects with an error or resolves with a reply
Http(fields) ==
    {[ok |-> FALSE, err |-> e, reply |-> NoFence] : e \in Thrown}
       \cup {[ok |-> TRUE, err |-> NoError, reply |-> r] :
                r \in SampleReplies(fields)}

\* validateOpenRouterConfiguration: the error thrown without a usable key
ConfigurationError ==
    [isError |-> TRUE,
     message |-> <<"OpenRouter", "API", "key", "not", "found.">>]

\* new Error(`<prefix> ${error instanceof Error ? error.message : String(error)}`)
Wrapped(prefix, e) == [isError |-> TRUE, message |-> prefix \o e.message]

\* OpenRouterService.analyzeCode: the configuration check, then the call
analyzeCode(keyOk, http) ==
    IF ~keyOk
    THEN [threw |-> TRUE, err |-> ConfigurationError, value |-> Null]
    ELSE IF ~http.ok
         THEN [threw |-> TRUE,
               err |-> Wrapped(<<"OpenRouter", "API", "call", "failed:">>,
                               http.err),
               value |-> Null]
         ELSE [threw |-> FALSE, err |-> NoError,
               value |-> Some(parseResponse(http.reply))]

\* OpenRouterService.analyzeGeneral
analyzeGeneral(keyOk, http) ==
    IF ~keyOk
    THEN [threw |-> TRUE, err |-> ConfigurationError, value |-> Null]
    ELSE IF ~http.ok
         THEN [threw |-> TRUE,
               err |-> Wrapped(<<"OpenRouter", "general", "analysis",
                                 "failed:">>, http.err),
               value |-> Null]
         ELSE [threw |-> FALSE, err |-> NoError,
               value |-> Some(parseGeneralResponse(http.reply))]

\* createErrorResponse of codeAnalyzer.ts
createErrorResponse(error, details) ==
    [code |-> error, summary |-> details, timeComplexity |-> "N/A",
     spaceComplexity |-> "N/A", language |-> "Unknown"]

\* createErrorResponse of generalAnalyzer.ts
createGeneralErrorResponse(error, details) ==
    [answer |-> error, explanation |-> details, test |-> "No test available"]

\* error instanceof Error && error.message.includes('API')
isServiceError(e) == e.isError /\ Includes(e.message, "API")

\* a catch block that handles service errors only and rethrows the rest
catchCodeRethrows(e) ==
    [threw |-> ~isServiceError(e),
     result |-> createErrorResponse("AI service unavailable",
                   "Please check your API key")]

\* the catch block of analyzeContentFromImages
catchCode(e) ==
    [threw |-> FALSE,
     result |-> IF isServiceError(e)
                THEN createErrorResponse("AI service unavailable",
                        "Please check your API key")
                ELSE createErrorResponse("Analysis failed",
                        "Please try again")]

\* the catch block of analyzeGeneralContentFromImages
catchGeneral(e) ==
    [threw |-> FALSE,
     result |-> IF isServiceError(e)
                THEN createGeneralErrorResponse("AI service unavailable",
                        "Check your API key and provider availability")
                ELSE createGeneralErrorResponse("Analysis failed",
                        "Please try again")]

\* analyzeContentFromImages on the files its paths lead to.  hook is what
\* onLanguageDetected throws (NoError: it returns).  The outcome records
\* whether the call rejected, the result, the images handed to the provider
\* (Null: no provider call) and the error the catch block saw.
analyzeContentFromImages(files, keyOk, http, hook) ==
    IF Len(files) = 0
    THEN [threw |-> FALSE, sent |-> Null, caught |-> Null,
          result |-> createErrorResponse("No images provided",
                        "Please capture screenshots first")]
    ELSE LET imageContents == processImages(files)
         IN IF Len(imageContents) = 0
            THEN [threw |-> FALSE, sent |-> Null, caught |-> Null,
                  result |-> createErrorResponse("Failed to process images",
                                "Please check image files")]
            ELSE LET r == analyzeCode(keyOk, http)
                     caught ==
                        IF r.threw THEN Some(r.err)
                        ELSE IF /\ r.value[1].language # ""
                                /\ r.value[1].language # "Unknown"
                                /\ hook # NoError
                             THEN Some(hook)
                             ELSE Null
                 IN IF caught = Null
                    THEN [threw |-> FALSE, sent |-> Some(imageContents),
                          caught |-> Null, result |-> r.value[1]]
                    ELSE [threw |-> catchCode(caught[1]).threw,
                          sent |-> Some(imageContents), caught |-> caught,
                          result |-> catchCode(caught[1]).result]

\* analyzeGeneralContentFromImages
analyzeGeneralContentFromImages(files, keyOk, http) ==
    IF Len(files) = 0
    THEN [threw |-> FALSE, sent |-> Null, caught |-> Null,
          result |-> createGeneralErrorResponse("No images provided",
                        "Capture at least one screenshot to analyze")]
    ELSE LET imageContents == processImages(files)
         IN IF Len(imageContents) = 0
            THEN [threw |-> FALSE, sent |-> Null, caught |-> Null,
                  result |-> createGeneralErrorResponse(
                                "Failed to process images",
                                "Verify screenshot files and try again")]
            ELSE LET r == analyzeGeneral(keyOk, http)
                 IN IF ~r.threw
                    THEN [threw |-> FALSE, sent |-> Some(imageContents),
                          caught |-> Null, result |-> r.value[1]]
                    ELSE [threw |-> catchGeneral(r.err).threw,
                          sent |-> Some(imageContents),
                          caught |-> Some(r.err),
                          result |-> catchGeneral(r.err).result]

\* ---- provider resolution (providers module)
\* the keys of the PROVIDERS object literal
ProviderNames == {"openrouter"}

\* the lower-case property names every object literal inherits from
\* Object.prototype; PROVIDERS[name] is truthy for them as well
InheritedNames == {"constructor", "__proto__"}

\* values of the AI_PROVIDER environment variable (Null: unset)
EnvValues ==
    {Null} \cup {Some(v) : v \in {"", "openrouter", "OpenRouter", "OPENROUTER",
                                  "anthropic", "constructor"}}

\* the override argument (Null: omitted); its type admits 'openrouter' only
Overrides == {Null, Some("openrouter")}

\* String.prototype.toLowerCase on the values explored
toLowerCase(str) ==
    IF str \in {"OpenRouter", "OPENROUTER"} THEN "openrouter" ELSE str

\* PROVIDERS[name] read as a condition
ProviderLookup(name) == name \in ProviderNames \cup InheritedNames

getCurrentProvider(override, env) ==
    IF override # Null /\ override[1] # "" /\ ProviderLookup(override[1])
    THEN override[1]
    ELSE LET envProvider == IF env = Null THEN Null
                            ELSE Some(toLowerCase(env[1]))
         IN IF /\ envProvider # Null
               /\ envProvider[1] # ""
               /\ ProviderLookup(envProvider[1])
            THEN envProvider[1]
            ELSE "openrouter"

\* ---- the services layer as a specification: a call of one function with
\* its arguments, and the step that runs it
Pending(fn, args) ==
    {[fn |-> fn, arg |-> a, res |-> <<>>, done |-> FALSE] : a \in args}

AnalyzerArgs(fields, hooks) ==
    [files : PathLists, keyOk : BOOLEAN, http : Http(fields), hook : hooks]

Jobs ==
    Pending("validateImageFile", {[size |-> n] : n \in Sizes})
       \cup Pending("processImages", PathLists)
       \cup Pending("analyzeContentFromImages",
                    AnalyzerArgs(CodeFields,
                       {NoError} \cup {e \in Thrown : ~isServiceError(e)}))
       \cup Pending("analyzeGeneralContentFromImages",
                    AnalyzerArgs(GeneralFields, {NoError}))
       \cup Pending("parseResponse", Replies(CodeFields))
       \cup Pending("parseGeneralResponse", Replies(GeneralFields))
       \cup Pending("getCurrentProvider",
                    [override : Overrides, env : EnvValues, keyOk : BOOLEAN])

InitPure ==
    Started /\ job \in Jobs /\ providers = NoProviders /\ history = "pure"

Return(fn, res) ==
    /\ job.fn = fn
    /\ ~job.done
    /\ job' = [job EXCEPT !.res = res, !.done = TRUE]
    /\ UNCHANGED <<mainVars, providers, dev>>

ValidateImageFile == Return("validateImageFile", validateImageFile(job.arg))

ProcessBatch == Return("processImages", processImages(job.arg))

AnalyzeCodeImages ==
    Return("analyzeContentFromImages",
           analyzeContentFromImages(job.arg.files, job.arg.keyOk,
                                    job.arg.http, job.arg.hook))

AnalyzeGeneralImages ==
    Return("analyzeGeneralContentFromImages",
           analyzeGeneralContentFromImages(job.arg.files, job.arg.keyOk,
                                           job.arg.http))

ParseReply == Return("parseResponse", parseResponse(job.arg))

ParseGeneralReply ==
    Return("parseGeneralResponse", parseGeneralResponse(job.arg))

GetCurrentProvider ==
    Return("getCurrentProvider",
           getCurrentProvider(job.arg.override, job.arg.env))

NextPure ==
    \/ ValidateImageFile
    \/ ProcessBatch
    \/ AnalyzeCodeImages
    \/ AnalyzeGeneralImages
    \/ ParseReply
    \/ ParseGeneralReply
    \/ GetCurrentProvider

PureSpec == InitPure /\ [][NextPure]_vars

\* the call that has returned
Returned(fn) == job.fn = fn /\ job.done

\* an analyzer outcome that came from a failure branch: no path, no valid
\* image, or an error caught on the way
FailureBranch(out) == out.sent = Null \/ out.caught # Null

\* C23: the analyzers never reject, and on every failure branch (no image
\* paths, every image invalid, a service error, any other thrown error) the
\* result they return has a non-empty string in every field of the mode's
\* shape.
AnalyzersNeverThrow ==
    /\ Returned("analyzeContentFromImages")
          => /\ ~job.res.threw
             /\ FailureBranch(job.res)
                   => \A f \in CodeFields : job.res.result[f] # ""
    /\ Returned("analyzeGeneralContentFromImages")
          => /\ ~job.res.threw
             /\ FailureBranch(job.res)
                   => \A f \in GeneralFields : job.res.result[f] # ""

\* C23 happens: onLanguageDetected throws a value that is no Error after a
\* successful reply, and the code analyzer returns the generic failure result
AnalyzersNeverThrowSeen ==
    /\ Returned("analyzeContentFromImages")
    /\ job.arg.http.ok
    /\ job.res.caught # Null
    /\ job.res.result.code = "Analysis failed"

\* the provider HTTP call of the returned analyzer call was made and rejected
HttpFailed == job.res.sent # Null /\ job.arg.keyOk /\ ~job.arg.http.ok

\* C24 as stated: in code mode and in general mode, an error thrown by the
\* provider HTTP call gives the 'AI service unavailable' result, and a caught
\* error whose text does not contain "API" gives the 'Analysis failed'
\* result.
ServiceErrorClassified ==
    /\ Returned("analyzeContentFromImages")
          => /\ HttpFailed => job.res.result.code = "AI service unavailable"
             /\ (job.res.caught # Null
                    /\ ~Includes(job.res.caught[1].message, "API"))
                   => job.res.result.code = "Analysis failed"
    /\ Returned("analyzeGeneralContentFromImages")
          => /\ HttpFailed => job.res.result.answer = "AI service unavailable"
             /\ (job.res.caught # Null
                    /\ ~Includes(job.res.caught[1].message, "API"))
                   => job.res.result.answer = "Analysis failed"

\* the paths of a list whose file is neither empty, nor larger than 20 MiB,
\* nor impossible to stat or to read
Usable(files) ==
    {i \in 1..Len(files) :
        /\ files[i].stat # Null
        /\ files[i].stat[1] >= 1
        /\ files[i].stat[1] <= 20 * 1024 * 1024
        /\ files[i].readable}

\* C25: every path whose file is empty, larger than 20 MiB, or cannot be
\* stat'ed or read is dropped and the others are kept, in order; the
\* analysis hands the remaining images to the provider, and only when every
\* path is dropped does it return 'Failed to process images', without a
\* provider call.
BatchPreparation ==
    /\ Returned("processImages")
          => /\ Range(job.res) = Usable(job.arg)
             /\ \A i, j \in 1..Len(job.res) : i < j => job.res[i] < job.res[j]
    /\ (Returned("analyzeContentFromImages") /\ Len(job.arg.files) > 0)
          => IF Usable(job.arg.files) = {}
             THEN /\ job.res.sent = Null
                  /\ job.res.result.code = "Failed to process images"
             ELSE /\ job.res.sent # Null
                  /\ Range(job.res.sent[1]) = Usable(job.arg.files)
                  /\ job.res.result.code # "Failed to process images"
    /\ (Returned("analyzeGeneralContentFromImages") /\ Len(job.arg.files) > 0)
          => IF Usable(job.arg.files) = {}
             THEN /\ job.res.sent = Null
                  /\ job.res.result.answer = "Failed to process images"
             ELSE /\ job.res.sent # Null
                  /\ Range(job.res.sent[1]) = Usable(job.arg.files)
                  /\ job.res.result.answer # "Failed to process images"

\* C25 happens: of two paths the first leads to a file of 20 MiB + 1 bytes
\* and is dropped, the second is sent to the provider, which replies
BatchPreparationSeen ==
    /\ Returned("analyzeContentFromImages")
    /\ Len(job.arg.files) = 2
    /\ job.arg.files[1].stat = Some(MAX_IMAGE_BYTES + 1)
    /\ job.res.sent = Some(<<2>>)
    /\ job.res.caught = Null

\* C26: validateImageFile accepts a size s exactly when
\* 1 <= s <= 20 * 1024 * 1024; size 0 is rejected as empty, and a size above
\* 20 MiB (20 MiB + 1 is the first) as too large.
ValidationBoundary ==
    Returned("validateImageFile")
       => /\ job.res.isValid
                <=> (1 <= job.arg.size /\ job.arg.size <= 20 * 1024 * 1024)
          /\ job.arg.size = 0
                => job.res.error = Some("Image file is empty")
          /\ job.arg.size > 20 * 1024 * 1024
                => job.res.error = Some("Image file too large (max 20MB)")
          /\ job.res.isValid => job.res.error = Null

\* C26 happens: a file of exactly 20 MiB has been accepted
ValidationBoundarySeen ==
    /\ Returned("validateImageFile")
    /\ job.arg.size = 20971520
    /\ job.res.isValid

\* the objects a reply offers as JSON: the reply itself and its first fenced
\* block, where they start with '{' and parse
JsonOf(reply) ==
    {p.obj : p \in {q \in {reply.body, reply.fence} : q.k = "json"}}

\* C27 as stated: parseResponse and parseGeneralResponse return a result for
\* every reply; when the reply or its first fenced block starts with '{' and
\* parses as JSON, the result maps the named fields of that object with the
\* defaults 'O(?)', 'Unknown' and the empty string for missing ones; in every
\* other case the result is the one of the text heuristics.
ReplyParsed ==
    /\ Returned("parseResponse")
          => IF JsonOf(job.arg) # {}
             THEN \E o \in JsonOf(job.arg) :
                     job.res =
                        [code |-> FieldOr(o, "code", ""),
                         summary |-> FieldOr(o, "summary", ""),
                         timeComplexity |-> FieldOr(o, "timeComplexity", "O(?)"),
                         spaceComplexity |->
                            FieldOr(o, "spaceComplexity", "O(?)"),
                         language |-> FieldOr(o, "language", "Unknown")]
             ELSE job.res = extractFromText(job.arg)
    /\ Returned("parseGeneralResponse")
          => IF JsonOf(job.arg) # {}
             THEN \E o \in JsonOf(job.arg) :
                     job.res = [answer |-> FieldOr(o, "answer", ""),
                                explanation |-> FieldOr(o, "explanation", ""),
                                test |-> FieldOr(o, "test", "")]
             ELSE job.res = extractGeneralFromText(job.arg)

\* C28 as stated: getCurrentProvider returns the override when it names a
\* known provider, otherwise the lower-cased AI_PROVIDER value when that
\* names a known provider, otherwise 'openrouter', with or without an API
\* key.
ProviderOrder ==
    Returned("getCurrentProvider")
       => job.res =
             IF job.arg.override # Null /\ job.arg.override[1] \in ProviderNames
             THEN job.arg.override[1]
             ELSE IF /\ job.arg.env # Null
                     /\ toLowerCase(job.arg.env[1]) \in ProviderNames
                  THEN toLowerCase(job.arg.env[1])
                  ELSE "openrouter"

\* ---- the model-list cache (providers module) under calls that overlap
MaxRequests == 3    \* fetches issued

\* what fetchProgrammingModels resolves with: the image-capable models of
\* the reply, or its own fallback list when the request fails
FetchOutcomes ==
    {[failed |-> FALSE, models |-> ModelList(n)] :
        n \in (0..MaxFetched) \cup {FallbackCount}}
       \cup {[failed |-> TRUE, models |-> FALLBACK_MODELS]}

\* a refreshModelsCache call has not returned yet
Refreshing(p) == \E c \in p.waiting : c.kind = "refresh"

\* what the claim lets a call issued now expect: the list the module has
\* settled on, unless a refresh is under way
Expected(p) == IF Refreshing(p) THEN Null ELSE p.stable

\* getAvailableModels up to its first await that has to wait.  kind is
\* "call" for a call from outside and "refresh" for the call made by
\* refreshModelsCache.
getAvailableModelsIn(p, kind) ==
    IF p.cachedModels # Null
    THEN [p EXCEPT !.stable = IF p.stable = Null /\ ~Refreshing(p)
                              THEN p.cachedModels ELSE p.stable,
                   !.last = [op |-> kind, expect |-> Expected(p),
                             got |-> p.cachedModels, fetched |-> FALSE,
                             failed |-> FALSE]]
    ELSE IF p.modelsFetchPromise # 0
         THEN [p EXCEPT !.waiting =
                  @ \cup {[await |-> p.modelsFetchPromise, kind |-> "wait",
                           starts |-> FALSE, expect |-> Expected(p)]}]
         ELSE [p EXCEPT !.modelsFetchPromise = p.issued + 1,
                        !.issued = p.issued + 1,
                        !.inFlight = @ \cup {p.issued + 1},
                        !.waiting =
                           @ \cup {[await |-> p.issued + 1, kind |-> kind,
                                    starts |-> TRUE,
                                    expect |-> IF kind = "refresh" THEN Null
                                               ELSE Expected(p)]}]

\* refreshModelsCache up to the await of its getAvailableModels call; last
\* records whether that call issued a fetch
refreshModelsCacheIn(p) ==
    LET q == getAvailableModelsIn([p EXCEPT !.cachedModels = Null,
                                            !.modelsFetchPromise = 0,
                                            !.stable = Null],
                                  "refresh")
    IN [q EXCEPT !.last = [op |-> "refresh", expect |-> Null, got |-> Null,
                           fetched |-> q.issued > p.issued,
                           failed |-> FALSE]]

\* a call of getAvailableModels
GetAvailableModels ==
    /\ providers.cachedModels = Null /\ providers.modelsFetchPromise = 0
          => providers.issued < MaxRequests
    /\ providers' = getAvailableModelsIn(providers, "call")
    /\ providers' # providers
    /\ UNCHANGED <<mainVars, job, dev>>

\* a call of refreshModelsCache
RefreshModelsCache ==
    /\ providers.issued < MaxRequests
    /\ providers' = refreshModelsCacheIn(providers)
    /\ UNCHANGED <<mainVars, job, dev>>

\* The promise of fetch f resolves: the continuation of the call that started
\* it stores the list and clears modelsFetchPromise, and every call awaiting
\* the promise returns the list (holds: the fetch whose list is cached).
FetchResolved ==
    \E f \in providers.inFlight, o \in FetchOutcomes :
       LET done == {c \in providers.waiting : c.await = f}
           rest == providers.waiting \ done
           starter == CHOOSE c \in done : c.starts
           judged == IF \E c \in done : c.expect # Null
                     THEN CHOOSE c \in done : c.expect # Null
                     ELSE starter
           refreshing == \E c \in rest : c.kind = "refresh"
       IN /\ providers' =
                [providers EXCEPT
                    !.cachedModels = Some(o.models),
                    !.modelsFetchPromise = 0,
                    !.inFlight = @ \ {f},
                    !.holds = f,
                    !.waiting = rest,
                    !.stable = IF refreshing THEN @
                               ELSE IF starter.kind = "refresh" \/ @ = Null
                                    THEN Some(o.models)
                                    ELSE @,
                    !.last = [op |-> judged.kind, expect |-> judged.expect,
                              got |-> Some(o.models), fetched |-> judged.starts,
                              failed |-> o.failed]]
          /\ UNCHANGED <<mainVars, job, dev>>

InitCache ==
    Started /\ job = NoJob /\ providers = NoProviders /\ history = "cache"

NextCache ==
    \/ GetAvailableModels
    \/ RefreshModelsCache
    \/ FetchResolved

CacheSpec == InitCache /\ [][NextCache]_vars

\* C29 as stated: once a getAvailableModels call has completed, every later
\* getAvailableModels call returns the same list without issuing a fetch,
\* until refreshModelsCache is called; refreshModelsCache always issues a new
\* fetch; when the fetch fails the fallback list is what is returned and
\* cached.
CacheSettled ==
    /\ (providers.last.op = "call" /\ providers.last.expect # Null)
          => /\ providers.last.got = providers.last.expect
             /\ ~providers.last.fetched
    /\ providers.last.op = "refresh" => providers.last.fetched
    /\ providers.last.failed
          => providers.last.got = Some(FALLBACK_MODELS)

\* a step in which saveScreenshot of invocation p fixes its slot
Computes(p) == cap[p].pc = "wait" /\ cap'[p].pc = "write"

\* a step in which saveScreenshot of invocation p stores its path
Commits(p) ==
    cap[p].pc = "write" /\ cap'[p].pc = "idle" /\ nInserts' = nInserts + 1

\* C30 as stated: an insert made while screenshotCount < MAX_SCREENSHOTS
\* appends a path (the ring grows and nothing is evicted), and an insert made
\* while screenshotCount = MAX_SCREENSHOTS overwrites slot 1 and evicts the
\* file that was there.
InsertByCount ==
    [][\A p \in Procs :
          Commits(p)
             => /\ screenshotCount < MAX_SCREENSHOTS
                      => /\ Len(screenshotPaths') = Len(screenshotPaths) + 1
                         /\ evicted' = evicted
                /\ screenshotCount = MAX_SCREENSHOTS
                      => /\ Len(screenshotPaths') = Len(screenshotPaths)
                         /\ screenshotPaths'[1] = <<1, cap[p].ts>>
                         /\ screenshotPaths[1] \in evicted']_vars

\* C30: an insert targets slot screenshotCount + 1, or slot 1 when
\* screenshotCount = MAX_SCREENSHOTS.  It appends its path (the ring grows
\* and nothing is evicted) when that slot lies beyond the stored paths, and
\* otherwise overwrites that slot and evicts the file stored there (unless
\* it is the very file written); screenshotCount becomes the slot.
InsertBySlot ==
    [][\A p \in Procs :
          /\ Computes(p)
                => cap'[p].slot = IF screenshotCount = MAX_SCREENSHOTS THEN 1
                                  ELSE screenshotCount + 1
          /\ Commits(p)
                => LET s == cap[p].slot
                       f == <<s, cap[p].ts>>
                   IN /\ screenshotCount' = s
                      /\ IF Len(screenshotPaths) < s
                         THEN /\ screenshotPaths' = Append(screenshotPaths, f)
                              /\ evicted' = evicted
                         ELSE /\ screenshotPaths' =
                                    [screenshotPaths EXCEPT ![s] = f]
                              /\ evicted' =
                                    evicted \cup ({screenshotPaths[s]} \ {f})
       ]_vars

\* C30 happens: four captures one after the other with no reset; the third
\* found screenshotCount = MAX_SCREENSHOTS and replaced slot 1, the fourth
\* found screenshotCount = 1 and replaced slot 2
InsertBySlotSeen ==
    /\ nInserts = 4
    /\ ~overlap
    /\ screenshotCount = 2
    /\ screenshotPaths = <<<<1, 3>>, <<2, 4>>>>
    /\ evicted = {<<1, 1>>, <<2, 2>>}

\* C31 as stated: every 'show-loading' sent to the window is eventually
\* followed by an 'analysis-result', so the window never stays in the
\* loading state; also when the trigger finds no model available or finds a
\* call running.
LoadingAnswered == loading ~> ~loading

\* ---- what becomes of a capture saved after the first analysis
\* The orchestrator of FairSpec, following every file saved once a call has
\* started on a full ring until a call is handed it.
InitSeen == Started /\ job = NoJob /\ providers = NoProviders
    /\ history = "seen"

SeenSpec ==
    /\ InitSeen
    /\ [][NextFair]_vars
    /\ WF_vars(TimerFired)
    /\ WF_vars(\E c \in calls : ProcessImages(c))
    /\ WF_vars(\E c \in calls : AnalysisDone(c))

\* the file names saveScreenshot can give
FilePaths == (1..MAX_SCREENSHOTS) \X (1..MaxShots)

\* C32 as stated: once the ring has filled and the first analysis has been
\* triggered, every capture saved later is eventually among the image paths
\* of an analyzer call (or a reset or mode toggle intervenes), also when it
\* is saved while the first call is still in flight.
LaterCaptureAnalysed ==
    \A f \in FilePaths : (f \in Unseen) ~> (f \notin Unseen)

\* C33 as stated: no screenshot file is deleted, by the eviction of
\* saveScreenshot or by the reset, while an analyzer call in flight that was
\* handed its path has not finished reading the images.
NoDeletionWhileReading ==
    \A c \in calls : c.stage = "images" => Range(c.paths) \cap unlinked = {}

\* C34 as stated: in every reachable state, also when a reset lands while a
\* capture is between computing its slot and committing it, screenshotCount
\* is at most the length of screenshotPaths, and when screenshotCount > 0 the
\* entry at index screenshotCount - 1 is the file saved most recently.
RingConsistent ==
    /\ screenshotCount <= Len(screenshotPaths)
    /\ screenshotCount > 0 =>
          lastSaved = Some(screenshotPaths[screenshotCount])

\* C35 as stated: at every event boundary while the window is open,
\* pendingAnalysis is set only if an analyzer call is in flight; reset, mode
\* toggle, manual trigger and call completion never leave pendingAnalysis
\* set while idle.
PendingOnlyWhileRunning ==
    mainWindow => (pendingAnalysis => isAnalysisRunning /\ calls # {})

\* C36 as stated: after initialisation, whenever availableModels is not
\* empty currentModelIndex is in 0..length-1, for every interleaving of
\* Cmd+M switches (index := (index + 1) mod length) with the background
\* model-list fetch that replaces availableModels, so that no trigger aborts
\* for want of a model.
ModelIndexInRange ==
    /\ Len(availableModels) > 0 =>
          currentModelIndex \in 0..(Len(availableModels) - 1)
    /\ ~aborted

\* C37 as stated: at most one model-list fetch is in flight at any time; a
\* getAvailableModels call made while a fetch is in progress issues none of
\* its own, for every interleaving of getAvailableModels and
\* refreshModelsCache calls; and once no fetch is in flight the cache holds
\* the result of the fetch started most recently.
SingleFetchInFlight ==
    /\ [](Cardinality(providers.inFlight) <= 1)
    /\ [][(GetAvailableModels /\ providers.inFlight # {})
            => providers'.issued = providers.issued]_vars
    /\ []((providers.inFlight = {} /\ providers.cachedModels # Null)
            => providers.holds = providers.issued)

\* ------------------------------------------------ development watcher
\* The watcher script of the repository (src/unnamed/part_005): it spawns
\* Electron, restarts it 300 ms after the last file change and 3 seconds
\* after a normal exit.  A child is "running" from its spawn, "killed" once
\* the watcher has sent it SIGTERM, "exited" once its exit event has been
\* delivered.

\* startElectron
startElectron(d) ==
    IF d.electronProcess # 0 THEN d
    ELSE [d EXCEPT !.electronProcess = d.spawned + 1,
                   !.spawned = d.spawned + 1,
                   !.children[d.spawned + 1] = "running"]

\* stopElectron
stopElectron(d) ==
    LET a == [d EXCEPT !.autoTimers = @ \ {d.autoRestartTimeout},
                       !.autoRestartTimeout = 0]
    IN IF a.electronProcess # 0
       THEN [a EXCEPT !.children[a.electronProcess] = "killed",
                      !.electronProcess = 0]
       ELSE a

\* the 'exit' handler installed by startElectron on child c; how is
\* "signal" (signal set), "normal" (code 0) or "code" (another code)
onExit(d, c, how) ==
    LET a == [d EXCEPT !.children[c] = "exited", !.electronProcess = 0]
    IN IF how = "normal"
       THEN [a EXCEPT !.autoRestartTimeout = c, !.autoTimers = @ \cup {c}]
       ELSE a

\* a state of the watcher from which startElectron can be followed
CanSpawn(d) == d.electronProcess # 0 \/ d.spawned < MaxSpawns

\* init(): the watchers are installed and Electron is started
WatcherInit ==
    /\ dev.phase = "load"
    /\ dev' = startElectron([dev EXCEPT !.phase = "watching"])
    /\ UNCHANGED <<mainVars, job, providers>>

\* a watched file changes: restartElectron sets the debounce timer anew
restartElectron ==
    /\ dev.phase = "watching"
    /\ dev' = [dev EXCEPT !.restartTimeout = TRUE]
    /\ UNCHANGED <<mainVars, job, providers>>

\* the debounce timer fires: stopElectron, then startElectron
RestartFired ==
    /\ dev.phase = "watching"
    /\ dev.restartTimeout
    /\ dev.spawned < MaxSpawns
    /\ dev' = startElectron(stopElectron([dev EXCEPT !.restartTimeout = FALSE]))
    /\ UNCHANGED <<mainVars, job, providers>>

\* the exit event of child c is delivered
ChildExit(c) ==
    /\ dev.phase = "watching"
    /\ dev.children[c] \in {"running", "killed"}
    /\ \E how \in {"signal", "normal", "code"} : dev' = onExit(dev, c, how)
    /\ UNCHANGED <<mainVars, job, providers>>

\* the 3-second timer set after a normal exit fires
AutoRestartFired(t) ==
    /\ dev.phase = "watching"
    /\ t \in dev.autoTimers
    /\ CanSpawn(dev)
    /\ dev' = startElectron([dev EXCEPT !.autoTimers = @ \ {t}])
    /\ UNCHANGED <<mainVars, job, providers>>

\* SIGINT / SIGTERM: handleShutdown stops Electron and exits
handleShutdown ==
    /\ dev.phase = "watching"
    /\ dev' = [stopElectron(dev) EXCEPT !.phase = "exited"]
    /\ UNCHANGED <<mainVars, job, providers>>

InitDev == Started /\ job = NoJob /\ providers = NoProviders
    /\ history = "dev"

NextDev ==
    \/ WatcherInit
    \/ restartElectron
    \/ RestartFired
    \/ \E c \in 1..MaxSpawns : ChildExit(c)
    \/ \E t \in 1..MaxSpawns : AutoRestartFired(t)
    \/ handleShutdown

DevSpec == InitDev /\ [][NextDev]_vars

\* the children the watcher has spawned and neither killed nor seen exit
Alive == {c \in 1..MaxSpawns : dev.children[c] = "running"}

\* C38 as stated: at most one Electron child is alive at any time and
\* electronProcess is non-null whenever a child is alive, for every
\* interleaving of debounced restarts, the auto-restart after a normal exit
\* and the exit events of children killed earlier.
OneChildAlive ==
    dev.phase = "watching" =>
       /\ Cardinality(Alive) <= 1
       /\ Alive # {} => dev.electronProcess # 0
====
